---------------------------- MODULE Spec2Model ----------------------------
(***************************************************************************)
(* Virtual-root aggregation and watch subsystem of dde-file-manager:       *)
(*   - the visibility policy        (ignoreBlkDevice)                      *)
(*   - the root enumerator          (DFMRootController::getChildren)       *)
(*   - the rename / alias mutator   (renameFile, setLocalDiskAlias)        *)
(*   - the watch session            (DFMRootFileWatcherPrivate)            *)
(* Strings are TLA+ strings; prefix, suffix and substring operations are   *)
(* computed character by character with SubSeq.                            *)
(***************************************************************************)
EXTENDS Integers, Sequences, FiniteSets, TLC

VARIABLES
    \* ---- visibility policy: the arguments and the result of one call
    argBlk,          \* block-device facts handed to ignoreBlkDevice
    argDrv,          \* drive facts handed to ignoreBlkDevice
    ignored,         \* <<>> before the call, then <<the returned boolean>>
    \* ---- application settings (DFMApplication generic attributes)
    GA_HideLoopPartitions,
    \* ---- the block/disk backend
    blockDevs,       \* names of the block devices currently present
    mountPoints,     \* device name -> its current mount points (DBlockDevice::mountPoints)
    idLabel,         \* device name -> its on-device label (DBlockDevice::idLabel)
    hiddenDirs,      \* directories handed to deviceListener->appendHiddenDirs
    \* ---- the mount/volume backend (DGioVolumeManager) and the offline stash
    mounts,          \* the live mounts, by name
    volumes,         \* the volumes, by name
    mountRequests,   \* the volumes a mount() was asked for that has not completed
    stash,           \* RemoteMountsStashManager::remoteMounts()
    DiskInfoMap,     \* DFMRootFileInfo::DiskInfoMap: the UUIDs with a side-car record
    \* ---- switches and managed policy
    GA_HiddenSystemPartition,
    GA_AlwaysShowOfflineRemoteConnections,
    DTK_POLICY_SUPPORT,  \* TRUE in a build with group-policy support
    hasSetDiskPolicy,    \* GroupPolicy::containKey(DISK_HIDDEN)
    diskPolicyList,      \* GroupPolicy::getValue(DISK_HIDDEN)
    isIntegrationMode,   \* smbIntegrationSwitcher->isIntegrationMode()
    \* ---- persisted settings (DFMApplication::genericSetting)
    aliasList,       \* the list stored under DISKALIAS_GROUP / DISKALIAS_ITEMS
    \* ---- the process
    assertsOn,       \* TRUE in a build that keeps Q_ASSERT
    crashed,         \* TRUE once a failed Q_ASSERT has aborted the process
    \* ---- one watch session (DFMRootFileWatcherPrivate)
    fileUrl,         \* the session's target address (q->fileUrl())
    started,
    vfsmgr,          \* TRUE when the DGioVolumeManager pointer is set
    udisksmgr,       \* "null", or the DDiskManager's state "idle" / "watching"
    connections,     \* QList<QMetaObject::Connection>
    blkdevs,         \* QList<QSharedPointer<DBlockDevice>>, by object path
    connectionsurl,  \* QStringList of dedup keys
    \* ---- what the last step did, as its caller or an observer sees it
    lastCall,        \* the operation or callback of the last step
    ret,             \* <<>>, or <<the value the last call returned>>
    events,          \* the signals the last step emitted, in order
    calls,           \* the calls the last step made to a backend or a service, in order
    hist,            \* the results of the calls a scripted client has made so far
    \* ---- the thread the session lives in
    pc,              \* where a running start() stands; "idle" between handlers
    queue            \* the backend signals raised and not yet delivered to their slots

visVars == <<argBlk, argDrv, ignored>>
settingVars == <<GA_HideLoopPartitions, GA_HiddenSystemPartition, GA_AlwaysShowOfflineRemoteConnections,
                 DTK_POLICY_SUPPORT, hasSetDiskPolicy, diskPolicyList, isIntegrationMode>>
gvfsVars == <<mounts, volumes, mountRequests, stash, DiskInfoMap>>
backendVars == <<blockDevs, mountPoints, idLabel, hiddenDirs>>
renameVars == <<aliasList, assertsOn, crashed>>
sessionVars == <<fileUrl, started, vfsmgr, udisksmgr, connections, blkdevs, connectionsurl>>
observeVars == <<lastCall, ret, events, calls, hist>>
loopVars == <<pc, queue>>
vars == <<visVars, settingVars, backendVars, gvfsVars, renameVars, sessionVars, observeVars, loopVars>>

----------------------------------------------------------------------------
(* QString helpers *)

\* QString::startsWith
StartsWith(s, p) == Len(s) >= Len(p) /\ SubSeq(s, 1, Len(p)) = p

\* QString::endsWith
EndsWith(s, p) == Len(s) >= Len(p) /\ SubSeq(s, Len(s) - Len(p) + 1, Len(s)) = p

\* QString::mid(n): the string from position n (0-based) to the end
Mid(s, n) == IF n >= Len(s) THEN "" ELSE SubSeq(s, n + 1, Len(s))

\* QString::contains(sub)
Contains(s, sub) == \E i \in 1..(Len(s) - Len(sub) + 1) : SubSeq(s, i, i + Len(sub) - 1) = sub

\* QStringList::join(sep)
RECURSIVE Join(_, _)
Join(list, sep) ==
    IF list = <<>> THEN ""
    ELSE IF Len(list) = 1 THEN list[1]
    ELSE list[1] \o sep \o Join(Tail(list), sep)

\* QString::replace(before, after): every occurrence, left to right
RECURSIVE Replace(_, _, _)
Replace(s, before, after) ==
    IF Len(s) < Len(before) \/ Len(s) = 0 THEN s
    ELSE IF StartsWith(s, before) THEN after \o Replace(Mid(s, Len(before)), before, after)
    ELSE SubSeq(s, 1, 1) \o Replace(Mid(s, 1), before, after)

\* QString::split(sep) for a separator of one character: empty parts are kept
RECURSIVE SplitFrom(_, _, _)
SplitFrom(s, sep, part) ==
    IF Len(s) = 0 THEN <<part>>
    ELSE IF SubSeq(s, 1, 1) = sep THEN <<part>> \o SplitFrom(Mid(s, 1), sep, "")
    ELSE SplitFrom(Mid(s, 1), sep, part \o SubSeq(s, 1, 1))

Split(s, sep) == SplitFrom(s, sep, "")

----------------------------------------------------------------------------
(* Visibility policy *)

\* DBlockPartition::Type values that ignoreBlkDevice hides
ExtendedTypes == {"Win95_Extended_LBA", "Linux_extended", "DRDOS_sec_extend",
                  "Multiuser_DOS_extend", "Extended"}

\* what DDiskManager::createBlockPartition(blkPath)->eType() can give;
\* "Null" stands for createBlockPartition returning no object
PartitionTypes == ExtendedTypes \cup {"Linux", "Win95_FAT32", "Null"}

\* avoid 0B partitions shown: the size threshold of ignoreBlkDevice
MinSize == 1024

\* static bool ignoreBlkDevice(blkPath, blk, drv): TRUE = hidden
M_ignoreBlkDevice_opticalFirst(blkPath, blk, drv) ==
    IF Contains(Join(drv.mediaCompatibility, ","), "optical") THEN FALSE
    ELSE IF blk.hintIgnore THEN TRUE
    ELSE IF blk.isEncrypted THEN FALSE
    ELSE IF blk.hasPartition /\ blk.eType \in ExtendedTypes THEN TRUE
    ELSE IF blk.hasFileSystem
         THEN IF blk.isLoopDevice THEN GA_HideLoopPartitions
              ELSE Len(blk.cryptoBackingDevice) > 1
         ELSE blk.hasPartitionTable \/ ~drv.removable \/ blk.size < MinSize

\* the policy without the rule that hides the cleartext side of an
\* encrypted device
M_ignoreBlkDevice_showCleartext(blkPath, blk, drv) ==
    IF blk.hintIgnore THEN TRUE
    ELSE IF Contains(Join(drv.mediaCompatibility, ","), "optical") THEN FALSE
    ELSE IF blk.isEncrypted THEN FALSE
    ELSE IF blk.hasPartition /\ blk.eType # "Null" /\ blk.eType \in ExtendedTypes THEN TRUE
    ELSE IF blk.hasFileSystem
         THEN IF blk.isLoopDevice THEN GA_HideLoopPartitions
              ELSE FALSE
         ELSE IF blk.hasPartitionTable THEN TRUE
              ELSE IF ~drv.removable THEN TRUE
              ELSE IF blk.size < MinSize THEN TRUE
              ELSE FALSE

ignoreBlkDevice(blkPath, blk, drv) ==
    IF blk.hintIgnore THEN TRUE
    ELSE IF Contains(Join(drv.mediaCompatibility, ","), "optical") THEN FALSE
    ELSE IF blk.isEncrypted THEN FALSE
    ELSE IF blk.hasPartition /\ blk.eType # "Null" /\ blk.eType \in ExtendedTypes THEN TRUE
    ELSE IF blk.hasFileSystem
         THEN IF blk.isLoopDevice THEN GA_HideLoopPartitions
              ELSE IF Len(blk.cryptoBackingDevice) > 1 THEN TRUE
              ELSE FALSE
         ELSE IF blk.hasPartitionTable THEN TRUE
              ELSE IF ~drv.removable THEN TRUE
              ELSE IF blk.size < MinSize THEN TRUE
              ELSE FALSE

\* the block-device facts ignoreBlkDevice reads, over every combination
VisBlkFacts ==
    [ hintIgnore : BOOLEAN, isEncrypted : BOOLEAN, hasPartition : BOOLEAN,
      eType : PartitionTypes, hasFileSystem : BOOLEAN, isLoopDevice : BOOLEAN,
      cryptoBackingDevice : {"", "/", "/org/freedesktop/UDisks2/block_devices/sdc"},
      hasPartitionTable : BOOLEAN, size : {0, 512, 1023, 1024, 67108864} ]

\* the drive facts ignoreBlkDevice reads
VisDrvFacts ==
    [ mediaCompatibility : {<<>>, <<"thumb">>, <<"optical_cd", "optical_dvd">>, <<"flash_sd", "optical_cd">>},
      removable : BOOLEAN ]

\* the variables a specification does not use keep these values
IdleVis == argBlk = <<>> /\ argDrv = <<>> /\ ignored = <<>>
IdleBackend == blockDevs = {} /\ mountPoints = <<>> /\ idLabel = <<>> /\ hiddenDirs = {}
IdleGvfs ==
    /\ mounts = {} /\ volumes = {} /\ mountRequests = {} /\ stash = <<>> /\ DiskInfoMap = {}
IdleSwitches ==
    /\ GA_HiddenSystemPartition = FALSE /\ GA_AlwaysShowOfflineRemoteConnections = FALSE
    /\ DTK_POLICY_SUPPORT = FALSE /\ hasSetDiskPolicy = FALSE /\ diskPolicyList = <<>>
    /\ isIntegrationMode = FALSE
IdleRename == aliasList = <<>> /\ assertsOn = FALSE /\ crashed = FALSE
IdleSession ==
    /\ fileUrl = <<>> /\ started = FALSE /\ vfsmgr = FALSE /\ udisksmgr = "null"
    /\ connections = <<>> /\ blkdevs = <<>> /\ connectionsurl = <<>>
IdleLoop == pc = [at |-> "idle", devs |-> <<>>] /\ queue = <<>>
IdleObserve == lastCall = <<>> /\ ret = <<>> /\ events = <<>> /\ calls = <<>> /\ hist = <<>>

InitVis ==
    /\ argBlk \in VisBlkFacts
    /\ argDrv \in VisDrvFacts
    /\ ignored = <<>>
    /\ GA_HideLoopPartitions \in BOOLEAN
    /\ IdleSwitches /\ IdleGvfs
    /\ IdleBackend /\ IdleRename /\ IdleSession /\ IdleObserve /\ IdleLoop

\* one evaluation of the policy on the drawn facts
IgnoreBlkDeviceCall ==
    /\ UNCHANGED loopVars
    /\ ignored = <<>>
    /\ ignored' = <<ignoreBlkDevice("/org/freedesktop/UDisks2/block_devices/sdx", argBlk, argDrv)>>
    /\ UNCHANGED <<argBlk, argDrv, settingVars, gvfsVars, backendVars, renameVars, sessionVars, observeVars>>

NextVis == IgnoreBlkDeviceCall

SpecVis == InitVis /\ [][NextVis]_vars

----------------------------------------------------------------------------
(* Addresses *)

DFMROOT_SCHEME == "dfmroot"
DFMROOT_ROOT == "dfmroot:///"
SUFFIX_UDISKS == "localdisk"
SUFFIX_GVFSMP == "gvfsmp"
SUFFIX_USRDIR == "userdir"
SUFFIX_STASHED_REMOTE == "remote"

\* the schemes DUrl normalises (durl.cpp's schemeList)
schemeList == {"trash", "recent", "bookmark", "file", "computer", "search"}

\* position of the first occurrence of sub in s, 0 when there is none
IndexOf(s, sub) ==
    IF Contains(s, sub)
    THEN CHOOSE i \in 1..Len(s) :
            /\ SubSeq(s, i, i + Len(sub) - 1) = sub
            /\ \A j \in 1..(i - 1) : SubSeq(s, j, j + Len(sub) - 1) # sub
    ELSE 0

\* QUrl(str): the scheme before the first ":", then after "//" an authority
\* up to the next "/", then the path (the addresses built here carry no
\* query, fragment or percent sign in the parsed string)
QUrl(str) ==
    LET k == IndexOf(str, ":") IN
    IF k = 0 THEN [scheme |-> "", path |-> str]
    ELSE LET rest == Mid(str, k) IN
         IF StartsWith(rest, "//")
         THEN LET auth == Mid(rest, 2)
                  sl == IndexOf(auth, "/")
              IN [scheme |-> SubSeq(str, 1, k - 1),
                  path |-> IF sl = 0 THEN "" ELSE Mid(auth, sl - 1)]
         ELSE [scheme |-> SubSeq(str, 1, k - 1), path |-> rest]

\* QDir::homePath() and the working directory of the process
HomePath == "/home/u"
CurrentDir == "/home/u"

\* QDir::cleanPath on a path without "." and ".." segments: repeated
\* separators collapse and a trailing separator is dropped (the root stays "/")
RECURSIVE CleanPath(_)
CleanPath(p) ==
    IF Contains(p, "//")
    THEN LET i == IndexOf(p, "//") IN CleanPath(SubSeq(p, 1, i) \o Mid(p, i + 1))
    ELSE IF Len(p) > 1 /\ EndsWith(p, "/") THEN SubSeq(p, 1, Len(p) - 1)
    ELSE p

\* QFileInfo(path).absoluteFilePath(): the path is made absolute and
\* cleaned; the trailing separator of a directory path is kept
absoluteFilePath(p) ==
    IF p = "" THEN ""
    ELSE LET result == IF StartsWith(p, "/") THEN p ELSE CurrentDir \o "/" \o p
         IN IF result = "/" THEN result
            ELSE IF EndsWith(result, "/") THEN CleanPath(result) \o "/"
            ELSE CleanPath(result)

\* DUrl::makeAbsolute: an address whose scheme is not in schemeList is left
\* as it is (so is every dfmroot address); a local file path is expanded and
\* made absolute; a path of another listed scheme only when it starts with "/"
makeAbsolute(url) ==
    IF url.scheme \notin schemeList THEN url
    ELSE IF url.scheme = "file"
         THEN IF StartsWith(url.path, "~")
              THEN [url EXCEPT !.path = HomePath \o Mid(url.path, 1)]
              ELSE [url EXCEPT !.path = absoluteFilePath(url.path)]
         ELSE IF StartsWith(url.path, "/")
              THEN [url EXCEPT !.path = absoluteFilePath(url.path)]
              ELSE url

\* DUrl::DUrl(const QString &url)
DUrl(str) == makeAbsolute(QUrl(str))

\* a default-constructed DUrl
NoUrl == [scheme |-> "", path |-> ""]

----------------------------------------------------------------------------
(* Address comparison: DUrl::operator==, DUrl::toString *)

\* In this section an address also says whether it carries an authority
\* (the "//" after the scheme, present in an address parsed from
\* "scheme:///path" and absent from one put together with setScheme and
\* setPath).

\* QUrl::isLocalFile
isLocalFile(u) == u.scheme = "file"

\* QUrl::toString
QUrlToString(u) ==
    (IF u.scheme # "" THEN u.scheme \o ":" ELSE "")
    \o (IF u.hasAuthority \/ (isLocalFile(u) /\ StartsWith(u.path, "/")) THEN "//" ELSE "")
    \o u.path

\* DUrl::toString
toString(u) ==
    IF isLocalFile(u) \/ u.scheme \notin schemeList THEN QUrlToString(u)
    ELSE u.scheme \o Mid(QUrlToString([u EXCEPT !.scheme = "file"]), 4)

\* QUrl::operator==: the authority of a local file is not compared
QUrlEquals(a, b) ==
    /\ a.scheme = b.scheme
    /\ a.path = b.path
    /\ isLocalFile(a) \/ a.hasAuthority = b.hasAuthority

\* QString::remove(str): every occurrence of str is taken out
Remove(s, str) == IF Len(str) = 0 THEN s ELSE Replace(s, str, "")

Abs(i) == IF i < 0 THEN 0 - i ELSE i

\* the comparison without the tolerance
M_Equals_structural(this, url) == QUrlEquals(this, url)

\* bool DUrl::operator ==(const QUrl &url) const
Equals(this, url) ==
    LET ok == QUrlEquals(this, url) IN
    IF ok \/ url.scheme \notin schemeList THEN ok
    ELSE IF Abs(Len(toString(this)) - Len(QUrlToString(url))) # 1 THEN FALSE
    ELSE LET path1 == this.path
             path2 == url.path
         IN IF Abs(Len(path1) - Len(path2)) # 1 THEN FALSE
            ELSE IF Len(path1) > Len(path2) THEN Remove(path1, path2) = "/"
            ELSE Remove(path2, path1) = "/"

\* the schemes and paths compared: two listed schemes of equal length, two
\* whose lengths differ by two, and the scheme of the virtual root
UrlSchemes == {"file", "recent", "search", "trash", DFMROOT_SCHEME}

UrlPaths == {"", "/", "//", "a", "/a", "a/", "/a/", "//a", "/a/b", "/a/b/", "/a//b"}

\* the addresses a QUrl can hold (a path that starts with "//" comes with an
\* authority here)
QUrls ==
    {u \in [scheme : UrlSchemes, hasAuthority : BOOLEAN, path : UrlPaths] :
        StartsWith(u.path, "//") => u.hasAuthority}

\* the addresses a DUrl holds after construction
DUrls == {makeAbsolute(u) : u \in QUrls}


\* one comparison this == url of a DUrl with a QUrl; ret keeps the answer
equalsCall(this, url) ==
    /\ UNCHANGED loopVars
    /\ lastCall.op = "new"
    /\ lastCall' = [op |-> "operator==", this |-> this, url |-> url]
    /\ ret' = <<Equals(this, url)>>
    /\ UNCHANGED <<visVars, settingVars, backendVars, gvfsVars, renameVars, sessionVars,
                   events, calls, hist>>

InitUrl ==
    /\ lastCall = [op |-> "new"] /\ ret = <<>> /\ events = <<>> /\ calls = <<>> /\ hist = <<>>
    /\ GA_HideLoopPartitions = FALSE
    /\ IdleLoop /\ IdleVis /\ IdleSwitches /\ IdleGvfs /\ IdleBackend /\ IdleRename /\ IdleSession

NextUrl == \E this \in DUrls, url \in QUrls : equalsCall(this, url)

SpecUrl == InitUrl /\ [][NextUrl]_vars

----------------------------------------------------------------------------
(* The block/disk backend: a catalogue of devices that come and go *)

ObjPrefix == "/org/freedesktop/UDisks2/block_devices/"

\* the devices of the catalogue, named by the last element of their object
\* path, in the order blockDevices({}) lists them (an object path holds
\* letters, digits and "_" only: the backend writes the "-" of a device-mapper
\* node as "_2d")
DevOrder == <<"dm_2d0", "dm_2d1", "loop5", "sda1", "sdc1">>
Devs == {DevOrder[i] : i \in 1..Len(DevOrder)}

\* the facts of an object path that names no device
InvalidBlk ==
    [ hintIgnore |-> FALSE, isEncrypted |-> FALSE, hasPartition |-> FALSE,
      eType |-> "Null", hasFileSystem |-> FALSE, isLoopDevice |-> FALSE,
      cryptoBackingDevice |-> "", hasPartitionTable |-> FALSE, size |-> 0,
      hintSystem |-> FALSE, idUUID |-> "", drive |-> "" ]

\* sda1: an internal system partition; sdc1: an encrypted shell on a USB
\* drive; dm_2d0: the cleartext counterpart of sdc1 (node /dev/dm-0); dm_2d1:
\* a logical volume with a file system (node /dev/dm-1); loop5: a loop device
BlkCatalog ==
    [ n \in Devs |->
        CASE n = "sda1" -> [InvalidBlk EXCEPT !.hasPartition = TRUE, !.eType = "Linux",
                              !.hasFileSystem = TRUE, !.size = 67108864, !.hintSystem = TRUE,
                              !.cryptoBackingDevice = "/",
                              !.idUUID = "uuid-sda1", !.drive = "/org/freedesktop/UDisks2/drives/disk0"]
          [] n = "sdc1" -> [InvalidBlk EXCEPT !.isEncrypted = TRUE, !.hasPartition = TRUE,
                              !.eType = "Linux", !.size = 67108864,
                              !.cryptoBackingDevice = "/",
                              !.idUUID = "uuid-sdc1", !.drive = "/org/freedesktop/UDisks2/drives/usb0"]
          [] n = "dm_2d0" -> [InvalidBlk EXCEPT !.hasFileSystem = TRUE, !.size = 67108864,
                              !.cryptoBackingDevice = ObjPrefix \o "sdc1",
                              !.idUUID = "uuid-dm0", !.drive = "/"]
          [] n = "dm_2d1" -> [InvalidBlk EXCEPT !.hasFileSystem = TRUE, !.size = 67108864,
                              !.cryptoBackingDevice = "/",
                              !.idUUID = "uuid-dm1", !.drive = "/"]
          [] OTHER      -> [InvalidBlk EXCEPT !.isLoopDevice = TRUE, !.hasFileSystem = TRUE,
                              !.size = 67108864, !.cryptoBackingDevice = "/",
                              !.idUUID = "uuid-loop5", !.drive = "/"] ]

\* the name of the device node of a device (DBlockDevice::device() is "/dev/"
\* followed by it)
DevNode(n) ==
    CASE n = "dm_2d0" -> "dm-0"
      [] n = "dm_2d1" -> "dm-1"
      [] OTHER -> n

InvalidDrv == [mediaCompatibility |-> <<>>, removable |-> FALSE]

\* DDiskManager::createDiskDevice(path)
createDiskDevice(path) ==
    CASE path = "/org/freedesktop/UDisks2/drives/disk0" -> [mediaCompatibility |-> <<>>, removable |-> FALSE]
      [] path = "/org/freedesktop/UDisks2/drives/usb0" -> [mediaCompatibility |-> <<"thumb">>, removable |-> TRUE]
      [] OTHER -> InvalidDrv

\* DDiskManager::createBlockDevice(path), read while the devices `present`
\* exist: the facts of the catalogue, the device node, the cleartext link of
\* an encrypted shell ("/" while it is locked) and the mount points
createBlockDevice(path, present) ==
    LET n == Mid(path, Len(ObjPrefix)) IN
    IF StartsWith(path, ObjPrefix) /\ n \in Devs
    THEN BlkCatalog[n] @@
         [ path |-> path, device |-> "/dev/" \o DevNode(n),
           cleartextDevice |-> IF n = "sdc1" /\ "dm_2d0" \in present THEN ObjPrefix \o "dm_2d0" ELSE "/",
           mountPoints |-> IF n \in present THEN mountPoints[n] ELSE <<>>,
           idLabel |-> IF n \in present THEN idLabel[n] ELSE "" ]
    ELSE InvalidBlk @@
         [ path |-> path, device |-> "", cleartextDevice |-> "", mountPoints |-> <<>>,
           idLabel |-> "" ]

\* DDiskManager::blockDevices({}): the object paths of the present devices
blockDevices(present) ==
    LET names == SelectSeq(DevOrder, LAMBDA n : n \in present)
    IN [i \in 1..Len(names) |-> ObjPrefix \o names[i]]

\* the mount points and labels the devices start with
InitMountPoints ==
    [n \in Devs |-> CASE n = "sda1" -> <<"/">>
                      [] n = "dm_2d0" -> <<"/media/u/Secret">>
                      [] n = "dm_2d1" -> <<"/data">>
                      [] OTHER -> <<>>]

InitLabels ==
    [n \in Devs |-> CASE n = "sda1" -> "System"
                      [] n = "dm_2d0" -> "Secret"
                      [] n = "dm_2d1" -> "Data1"
                      [] OTHER -> ""]

\* the sets of devices that can be present together: the cleartext device
\* exists only while its shell does
PresentSets == {S \in SUBSET Devs : "dm_2d0" \in S => "sdc1" \in S}

----------------------------------------------------------------------------
(* The watch session: DFMRootFileWatcherPrivate *)

\* no block-device-added callback is delivered once blkdevs holds more than
\* MaxRefs - 2 references (blkdevs grows with every callback)
MaxRefs == 5

\* the virtual root
RootUrl == DUrl(DFMROOT_ROOT)

\* the addresses a session is created for (DFMRootController::createFileWatcher
\* hands over the address of the event; the controller serves dfmroot addresses)
Targets == {RootUrl, DUrl(DFMROOT_ROOT \o "sda1." \o SUFFIX_UDISKS), DUrl("dfmroot://")}

\* the signals of DAbstractFileWatcher::SignalType1
SignalType1 == {"fileDeleted", "subfileCreated", "fileAttributeChanged", "fileModified", "fileClosed"}

Call(op, dev, signal, url) == [op |-> op, dev |-> dev, signal |-> signal, url |-> url]
Connection(sender, signal, url) == [sender |-> sender, signal |-> signal, url |-> url]
Emit(signal, url) == [signal |-> signal, url |-> url]

\* the private object's lists, the hidden-directory list it feeds and the
\* signals emitted so far in the running step
Priv == [ connections |-> connections, blkdevs |-> blkdevs, connectionsurl |-> connectionsurl,
          hiddenDirs |-> hiddenDirs, emitted |-> <<>> ]

\* the slots a signal of `sender` reaches: one per connection made for it
Receivers(conns, sender, signal) ==
    Cardinality({i \in 1..Len(conns) : conns[i].sender = sender /\ conns[i].signal = signal})

\* the address string of a block device, from its object path
blkUrlStr(devs) == DFMROOT_ROOT \o Mid(devs, Len(ObjPrefix)) \o "." \o SUFFIX_UDISKS

InList(list, x) == \E i \in 1..Len(list) : list[i] = x

\* initBlockDevConnections without the look-up of the dedup key
M_initBlockDevConnections_noDedup(d, blk, devs) ==
    LET urlstr == blkUrlStr(devs)
        url == DUrl(urlstr)
        d1 == [d EXCEPT !.blkdevs = Append(@, blk.path)]
    IN IF blk.isEncrypted
       THEN LET ctblk == blk.cleartextDevice
                d2 == [d1 EXCEPT !.blkdevs = Append(@, ctblk)]
            IN [d2 EXCEPT
                  !.connections = @ \o << Connection(blk.path, "cleartextDeviceChanged", url),
                                          Connection(ctblk, "idLabelChanged", url),
                                          Connection(ctblk, "mountPointsChanged", url) >>,
                  !.connectionsurl = Append(@, urlstr \o "_en")]
       ELSE [d1 EXCEPT
               !.connections = @ \o << Connection(blk.path, "idLabelChanged", url),
                                       Connection(blk.path, "mountPointsChanged", url),
                                       Connection(blk.path, "sizeChanged", url),
                                       Connection(blk.path, "idTypeChanged", url),
                                       Connection(blk.path, "cleartextDeviceChanged", url) >>,
               !.connectionsurl = Append(@, urlstr)]

\* DFMRootFileWatcherPrivate::initBlockDevConnections(blk, devs)
initBlockDevConnections(d, blk, devs) ==
    LET urlstr == blkUrlStr(devs)
        url == DUrl(urlstr)
        d1 == [d EXCEPT !.blkdevs = Append(@, blk.path)]
    IN IF blk.isEncrypted
       THEN LET ctblk == blk.cleartextDevice
                d2 == [d1 EXCEPT !.blkdevs = Append(@, ctblk)]
            IN IF InList(d.connectionsurl, urlstr \o "_en") THEN d2
               ELSE [d2 EXCEPT
                       !.connections = @ \o << Connection(blk.path, "cleartextDeviceChanged", url),
                                               Connection(ctblk, "idLabelChanged", url),
                                               Connection(ctblk, "mountPointsChanged", url) >>,
                       !.connectionsurl = Append(@, urlstr \o "_en")]
       ELSE IF InList(d.connectionsurl, urlstr) THEN d1
            ELSE [d1 EXCEPT
                    !.connections = @ \o << Connection(blk.path, "idLabelChanged", url),
                                            Connection(blk.path, "mountPointsChanged", url),
                                            Connection(blk.path, "sizeChanged", url),
                                            Connection(blk.path, "idTypeChanged", url),
                                            Connection(blk.path, "cleartextDeviceChanged", url) >>,
                    !.connectionsurl = Append(@, urlstr)]

\* start(): hide the specified dirs of unremovable devices
appendHiddenDirs(d, blk, drv) ==
    IF ~drv.removable /\ blk.mountPoints # <<>>
    THEN LET mp == blk.mountPoints[1]
             mountPoint == IF EndsWith(mp, "/") THEN mp ELSE mp \o "/"
         IN [d EXCEPT !.hiddenDirs = @ \cup {mountPoint \o "root", mountPoint \o "lost+found"}]
    ELSE d

\* start(): the loop over the devices present at the call
RECURSIVE snapshotLoop(_, _, _)
snapshotLoop(d, list, present) ==
    IF list = <<>> THEN d
    ELSE LET devs == Head(list)
             blk == createBlockDevice(devs, present)
             drv == createDiskDevice(blk.drive)
             d1 == appendHiddenDirs(d, blk, drv)
         IN snapshotLoop(IF ignoreBlkDevice(devs, blk, drv) THEN d1
                         ELSE initBlockDevConnections(d1, blk, devs),
                         Tail(list), present)

\* start(): the listeners attached to the two backends
startConnections ==
    << Connection("vfsmgr", "mountAdded", NoUrl),
       Connection("vfsmgr", "mountRemoved", NoUrl),
       Connection("vfsmgr", "volumeAdded", NoUrl),
       Connection("udisksmgr", "blockDeviceAdded", NoUrl),
       Connection("udisksmgr", "blockDeviceRemoved", NoUrl) >>

\* start(): the test that makes it return false at once
M_startRefused_pathOnly == fileUrl.path # "/"

M_startRefused_startedOnly == started

startRefused == fileUrl.path # "/" \/ started

\* the slot start() connects to DDiskManager::blockDeviceAdded
M_blockDeviceAddedSlot_createdIfNew(d, blks, present) ==
    LET blk == createBlockDevice(blks, present)
        drv == createDiskDevice(blk.drive)
    IN IF ignoreBlkDevice(blks, blk, drv) THEN d
       ELSE LET d1 == initBlockDevConnections(d, blk, blks)
            IN IF Len(d1.connectionsurl) = Len(d.connectionsurl) THEN d1
               ELSE [d1 EXCEPT !.emitted = Append(@, Emit("subfileCreated", DUrl(blkUrlStr(blks))))]

blockDeviceAddedSlot(d, blks, present) ==
    LET blk == createBlockDevice(blks, present)
        drv == createDiskDevice(blk.drive)
    IN IF ignoreBlkDevice(blks, blk, drv) THEN d
       ELSE LET d1 == initBlockDevConnections(d, blk, blks)
            IN [d1 EXCEPT !.emitted = Append(@, Emit("subfileCreated", DUrl(blkUrlStr(blks))))]

\* blockDeviceAdded raised once: the slot runs for each of the k connections
RECURSIVE deliverBlockDeviceAdded(_, _, _, _)
deliverBlockDeviceAdded(d, k, blks, present) ==
    IF k = 0 THEN d
    ELSE deliverBlockDeviceAdded(blockDeviceAddedSlot(d, blks, present), k - 1, blks, present)

\* the blockDeviceRemoved slot, had it also dropped the dedup key of the device
M_blockDeviceRemovedSlot_forgetKey(d, blks) ==
    [d EXCEPT !.emitted = Append(@, Emit("fileDeleted", DUrl(blkUrlStr(blks)))),
              !.connectionsurl = SelectSeq(@, LAMBDA key : key # blkUrlStr(blks))]

\* the slot start() connects to DDiskManager::blockDeviceRemoved
blockDeviceRemovedSlot(d, blks) ==
    [d EXCEPT !.emitted = Append(@, Emit("fileDeleted", DUrl(blkUrlStr(blks))))]

\* blockDeviceRemoved raised once: the slot runs for each of the k connections
RECURSIVE deliverBlockDeviceRemoved(_, _, _)
deliverBlockDeviceRemoved(d, k, blks) ==
    IF k = 0 THEN d
    ELSE deliverBlockDeviceRemoved(blockDeviceRemovedSlot(d, blks), k - 1, blks)

\* stop(): every connection is disconnected and the three lists are cleared
\* (a connection is live while it is in the list: stop() disconnects each one
\* before it clears the list)
M_stopClears_keepConnections(d) == [d EXCEPT !.connectionsurl = <<>>, !.blkdevs = <<>>]

\* stop() without connectionsurl.clear()
M_stopClears_keepKeys(d) == [d EXCEPT !.connections = <<>>, !.blkdevs = <<>>]

stopClears(d) == [d EXCEPT !.connections = <<>>, !.connectionsurl = <<>>, !.blkdevs = <<>>]

\* handleGhostSignal(target, signal, url): the returned flag and the signals emitted
M_handleGhostSignal_anyDev(target, signal, url) ==
    LET path == url.path IN
    IF StartsWith(path, "/dev/")
    THEN IF signal = "fileDeleted"
         THEN [ok |-> TRUE,
               emitted |-> <<Emit("fileDeleted", DUrl(DFMROOT_ROOT \o Mid(path, Len("/dev/")) \o "." \o SUFFIX_UDISKS))>>]
         ELSE IF signal = "subfileCreated" THEN [ok |-> TRUE, emitted |-> <<>>]
         ELSE [ok |-> FALSE, emitted |-> <<>>]
    ELSE [ok |-> FALSE, emitted |-> <<>>]

handleGhostSignal(target, signal, url) ==
    LET path == url.path IN
    IF StartsWith(path, "/dev/loop")
    THEN IF signal = "fileDeleted"
         THEN [ok |-> TRUE,
               emitted |-> <<Emit("fileDeleted", DUrl(DFMROOT_ROOT \o Mid(path, Len("/dev/")) \o "." \o SUFFIX_UDISKS))>>]
         ELSE IF signal = "subfileCreated" THEN [ok |-> TRUE, emitted |-> <<>>]
         ELSE [ok |-> FALSE, emitted |-> <<>>]
    ELSE [ok |-> FALSE, emitted |-> <<>>]

\* the paths of the addresses handed to the ghost-signal side channel
GhostUrls == { [scheme |-> "file", path |-> q] :
                 q \in {"/dev/loop5", "/dev/loop", "/dev/sda1", "/dev/loo", "/loop5", ""} }

\* the attribute-change signals of a DBlockDevice that the session listens to
BlkSignals == {"idLabelChanged", "mountPointsChanged", "sizeChanged", "idTypeChanged",
               "cleartextDeviceChanged"}

\* the devices that come and go in the sessions of Spec, and in those of SpecLvm
HotplugDevs == Devs \ {"dm_2d1"}

LvmDevs == {"sda1", "dm_2d1"}

\* a watcher right after construction, with some of the devices `devs` present
InitSessionOn(devs) ==
    /\ fileUrl \in Targets
    /\ started = FALSE /\ vfsmgr = FALSE /\ udisksmgr = "null"
    /\ connections = <<>> /\ blkdevs = <<>> /\ connectionsurl = <<>>
    /\ blockDevs \in {S \in PresentSets : S \subseteq devs}
    /\ mountPoints = InitMountPoints
    /\ idLabel = InitLabels
    /\ hiddenDirs = {}
    /\ GA_HideLoopPartitions \in BOOLEAN
    /\ lastCall = Call("new", "", "", NoUrl) /\ ret = <<>> /\ events = <<>> /\ calls = <<>> /\ hist = <<>>
    /\ IdleLoop /\ IdleVis /\ IdleRename /\ IdleSwitches /\ IdleGvfs

InitSession == InitSessionOn(HotplugDevs)

\* bool DFMRootFileWatcherPrivate::start()
start ==
    /\ UNCHANGED loopVars
    /\ lastCall' = Call("start", "", "", NoUrl)
    /\ IF startRefused
       THEN /\ ret' = <<FALSE>>
            /\ events' = <<>>
            /\ UNCHANGED <<sessionVars, backendVars>>
       ELSE LET d0 == [Priv EXCEPT !.connections = @ \o startConnections]
                d1 == snapshotLoop(d0, blockDevices(blockDevs), blockDevs)
            IN /\ vfsmgr' = TRUE
               /\ udisksmgr' = "watching"
               /\ connections' = d1.connections
               /\ blkdevs' = d1.blkdevs
               /\ connectionsurl' = d1.connectionsurl
               /\ hiddenDirs' = d1.hiddenDirs
               /\ started' = TRUE
               /\ ret' = <<TRUE>>
               /\ events' = d1.emitted
               /\ UNCHANGED <<fileUrl, blockDevs, mountPoints, idLabel>>
    /\ UNCHANGED <<visVars, settingVars, gvfsVars, renameVars, calls>>

\* bool DFMRootFileWatcherPrivate::stop()
stop ==
    /\ UNCHANGED loopVars
    /\ lastCall' = Call("stop", "", "", NoUrl)
    /\ IF ~started
       THEN /\ ret' = <<FALSE>>
            /\ UNCHANGED sessionVars
       ELSE LET d1 == stopClears(Priv)
            IN /\ connections' = d1.connections
               /\ connectionsurl' = d1.connectionsurl
               /\ blkdevs' = d1.blkdevs
               /\ vfsmgr' = FALSE
               /\ udisksmgr' = "null"
               /\ started' = FALSE
               /\ ret' = <<TRUE>>
               /\ UNCHANGED fileUrl
    /\ events' = <<>>
    /\ UNCHANGED <<visVars, settingVars, gvfsVars, backendVars, renameVars, calls>>

\* the backend gains device n; a watching DDiskManager raises
\* blockDeviceAdded, which runs the slot of every connection made for it
blockDeviceAdded(n) ==
    /\ UNCHANGED loopVars
    /\ n \notin blockDevs
    /\ (blockDevs \cup {n}) \in PresentSets
    /\ Len(blkdevs) + 2 <= MaxRefs
    /\ blockDevs' = blockDevs \cup {n}
    /\ LET k == IF udisksmgr = "watching" THEN Receivers(connections, "udisksmgr", "blockDeviceAdded") ELSE 0
           d1 == deliverBlockDeviceAdded(Priv, k, ObjPrefix \o n, blockDevs \cup {n})
       IN /\ connections' = d1.connections
          /\ blkdevs' = d1.blkdevs
          /\ connectionsurl' = d1.connectionsurl
          /\ events' = d1.emitted
    /\ lastCall' = Call("blockDeviceAdded", n, "", NoUrl)
    /\ ret' = <<>>
    /\ UNCHANGED <<fileUrl, started, vfsmgr, udisksmgr, mountPoints, idLabel, hiddenDirs, hist, calls,
                   visVars, settingVars, gvfsVars, renameVars>>

\* the backend loses device n; a watching DDiskManager raises blockDeviceRemoved
blockDeviceRemoved(n) ==
    /\ UNCHANGED loopVars
    /\ n \in blockDevs
    /\ (blockDevs \ {n}) \in PresentSets
    /\ blockDevs' = blockDevs \ {n}
    /\ LET k == IF udisksmgr = "watching" THEN Receivers(connections, "udisksmgr", "blockDeviceRemoved") ELSE 0
           d1 == deliverBlockDeviceRemoved(Priv, k, ObjPrefix \o n)
       IN /\ connections' = d1.connections
          /\ blkdevs' = d1.blkdevs
          /\ connectionsurl' = d1.connectionsurl
          /\ events' = d1.emitted
    /\ lastCall' = Call("blockDeviceRemoved", n, "", NoUrl)
    /\ ret' = <<>>
    /\ UNCHANGED <<fileUrl, started, vfsmgr, udisksmgr, mountPoints, idLabel, hiddenDirs, hist, calls,
                   visVars, settingVars, gvfsVars, renameVars>>

\* the slots connected to the attribute signal `signal` of the object at
\* `sender`: each emits fileAttributeChanged for the address it captured
attributeSlots(conns, sender, signal) ==
    LET hit == SelectSeq(conns, LAMBDA c : c.sender = sender /\ c.signal = signal)
    IN [i \in 1..Len(hit) |-> Emit("fileAttributeChanged", hit[i].url)]

\* the backend reports a changed attribute of the present device n
attributeChanged(n, signal) ==
    /\ UNCHANGED loopVars
    /\ n \in blockDevs
    /\ events' = attributeSlots(connections, ObjPrefix \o n, signal)
    /\ lastCall' = Call("attributeChanged", n, signal, NoUrl)
    /\ ret' = <<>>
    /\ UNCHANGED <<sessionVars, backendVars, hist, calls, visVars, settingVars, gvfsVars, renameVars>>

\* DAbstractFileWatcher::ghostSignal reaching this session's handleGhostSignal
ghostSignal(target, signal, url) ==
    /\ UNCHANGED loopVars
    /\ LET r == handleGhostSignal(target, signal, url)
       IN ret' = <<r.ok>> /\ events' = r.emitted
    /\ lastCall' = Call("handleGhostSignal", "", signal, url)
    /\ UNCHANGED <<sessionVars, backendVars, hist, calls, visVars, settingVars, gvfsVars, renameVars>>

Next ==
    \/ start /\ UNCHANGED hist
    \/ stop /\ UNCHANGED hist
    \/ \E n \in HotplugDevs : blockDeviceAdded(n)
    \/ \E n \in HotplugDevs : blockDeviceRemoved(n)
    \/ \E n \in HotplugDevs, signal \in BlkSignals : attributeChanged(n, signal)

Spec == InitSession /\ [][Next]_vars

\* a session that also receives ghost signals; no device comes or goes
NextGhost ==
    \/ start /\ UNCHANGED hist
    \/ stop /\ UNCHANGED hist
    \/ \E signal \in SignalType1, url \in GhostUrls : ghostSignal(RootUrl, signal, url)

SpecGhost == InitSession /\ [][NextGhost]_vars

\* a client of a virtual-root session that calls Start, Start, Stop, Stop
\* while devices come and go, and keeps each result
Script == <<"start", "start", "stop", "stop">>

scriptedCall ==
    /\ Len(hist) < Len(Script)
    /\ \/ Script[Len(hist) + 1] = "start" /\ start
       \/ Script[Len(hist) + 1] = "stop" /\ stop
    /\ hist' = Append(hist, ret'[1])

NextScript ==
    \/ scriptedCall
    \/ \E n \in HotplugDevs : blockDeviceAdded(n)
    \/ \E n \in HotplugDevs : blockDeviceRemoved(n)

InitScript == InitSession /\ fileUrl = RootUrl

SpecScript == InitScript /\ [][NextScript]_vars

\* a client of a virtual-root session that starts it, stops it and starts it
\* again while devices come and go, and keeps each result
RestartScript == <<"start", "stop", "start">>

restartCall ==
    /\ Len(hist) < Len(RestartScript)
    /\ \/ RestartScript[Len(hist) + 1] = "start" /\ start
       \/ RestartScript[Len(hist) + 1] = "stop" /\ stop
    /\ hist' = Append(hist, ret'[1])

NextRestart ==
    \/ restartCall
    \/ \E n \in HotplugDevs : blockDeviceAdded(n)
    \/ \E n \in HotplugDevs : blockDeviceRemoved(n)

SpecRestart == InitScript /\ [][NextRestart]_vars

----------------------------------------------------------------------------
(* The rename / alias mutator: renameFile, setLocalDiskAlias *)

\* QString::trimmed(): the string without its leading and trailing spaces
RECURSIVE trimmed(_)
trimmed(s) ==
    IF Len(s) = 0 THEN s
    ELSE IF SubSeq(s, 1, 1) = " " THEN trimmed(SubSeq(s, 2, Len(s)))
    ELSE IF SubSeq(s, Len(s), Len(s)) = " " THEN trimmed(SubSeq(s, 1, Len(s) - 1))
    ELSE s

\* what the file info of a device entry answers for its display name: the
\* on-device label, or a generic name when the device has none
udisksDisplayName(dev) == IF idLabel[dev] # "" THEN idLabel[dev] ELSE "Volume"

\* the file info of a block-device entry, as renameFile reads it
deviceFileInfo(dev, canSetAlias) ==
    [ url |-> DUrl(DFMROOT_ROOT \o DevNode(dev) \o "." \o SUFFIX_UDISKS),
      canRename |-> TRUE, canSetAlias |-> canSetAlias,
      uuid |-> BlkCatalog[dev].idUUID,
      udisksDisplayName |-> udisksDisplayName(dev),
      udisksblk |-> ObjPrefix \o dev ]

\* the file info of a user directory: it cannot be renamed
userDirFileInfo ==
    [ url |-> DUrl(DFMROOT_ROOT \o "desktop." \o SUFFIX_USRDIR),
      canRename |-> FALSE, canSetAlias |-> FALSE, uuid |-> "",
      udisksDisplayName |-> "", udisksblk |-> "" ]

\* the file info of an alias-capable entry whose device reports no UUID
noUuidFileInfo ==
    [ url |-> DUrl(DFMROOT_ROOT \o "sdd1." \o SUFFIX_UDISKS),
      canRename |-> TRUE, canSetAlias |-> TRUE, uuid |-> "",
      udisksDisplayName |-> "Volume", udisksblk |-> ObjPrefix \o "sdd1" ]

\* the file info of a renamable entry that carries no "udisksblk" property
noBlkFileInfo ==
    [ url |-> DUrl(DFMROOT_ROOT \o "sdd1." \o SUFFIX_UDISKS),
      canRename |-> TRUE, canSetAlias |-> FALSE, uuid |-> "",
      udisksDisplayName |-> "Volume", udisksblk |-> "" ]

\* the entries whose rename goes to the alias store, or is refused
AliasEntries ==
    {deviceFileInfo("sda1", TRUE), deviceFileInfo("loop5", TRUE), noUuidFileInfo, userDirFileInfo}

\* the entries whose rename goes to the on-device label
LabelEntries == {deviceFileInfo("dm_2d0", FALSE), noBlkFileInfo}

\* the new names a rename is asked for
NewNames == {"", " ", "Data", " Data ", "Work"}

\* one record of the persisted alias list
AliasItem(uuid, name, alias) == [uuid |-> uuid, name |-> name, alias |-> alias]

\* a call to a backend or a service, with the error it reported
BackendCall(call, on, arg, err) == [call |-> call, on |-> on, arg |-> arg, err |-> err]

\* the position of the first record of `uuid` in the list, 0 if it has none
\* (the loop of setLocalDiskAlias stops at the first match)
RECURSIVE firstOf(_, _, _)
firstOf(list, uuid, i) ==
    IF i > Len(list) THEN 0
    ELSE IF list[i].uuid = uuid THEN i
    ELSE firstOf(list, uuid, i + 1)

\* QList::removeAt(i)
removeAt(list, i) == SubSeq(list, 1, i - 1) \o SubSeq(list, i + 1, Len(list))

\* setLocalDiskAlias with the overwrite done as remove-and-append
M_setLocalDiskAlias_moveToEnd(list, fi, alias) ==
    IF ~fi.canRename \/ fi.uuid = ""
    THEN [ok |-> FALSE, list |-> list, calls |-> <<>>]
    ELSE LET dispalyAlias == trimmed(alias)
             i == firstOf(list, fi.uuid, 1)
             removed == IF i > 0 THEN removeAt(list, i) ELSE list
             stored == IF dispalyAlias # ""
                       THEN Append(removed, AliasItem(fi.uuid, fi.udisksDisplayName, dispalyAlias))
                       ELSE removed
         IN [ok |-> TRUE, list |-> stored,
             calls |-> << BackendCall("setValue", "DISKALIAS_ITEMS", "", FALSE),
                          BackendCall("ghostSignal", DFMROOT_ROOT, fi.url.path, FALSE) >>]

\* setLocalDiskAlias that keeps the record when the alias is empty
M_setLocalDiskAlias_keepOnEmpty(list, fi, alias) ==
    IF ~fi.canRename \/ fi.uuid = ""
    THEN [ok |-> FALSE, list |-> list, calls |-> <<>>]
    ELSE LET dispalyAlias == trimmed(alias)
             i == firstOf(list, fi.uuid, 1)
             stored == IF i > 0
                       THEN (IF dispalyAlias = "" THEN list
                             ELSE [list EXCEPT ![i] = [@ EXCEPT !.name = fi.udisksDisplayName,
                                                                !.alias = dispalyAlias]])
                       ELSE IF dispalyAlias # ""
                       THEN Append(list, AliasItem(fi.uuid, fi.udisksDisplayName, dispalyAlias))
                       ELSE list
         IN [ok |-> TRUE, list |-> stored,
             calls |-> << BackendCall("setValue", "DISKALIAS_ITEMS", "", FALSE),
                          BackendCall("ghostSignal", DFMROOT_ROOT, fi.url.path, FALSE) >>]

\* setLocalDiskAlias that appends a record without looking for one of the uuid
M_setLocalDiskAlias_appendOnly(list, fi, alias) ==
    IF ~fi.canRename \/ fi.uuid = ""
    THEN [ok |-> FALSE, list |-> list, calls |-> <<>>]
    ELSE [ok |-> TRUE,
          list |-> IF trimmed(alias) # ""
                   THEN Append(list, AliasItem(fi.uuid, fi.udisksDisplayName, trimmed(alias)))
                   ELSE list,
          calls |-> << BackendCall("setValue", "DISKALIAS_ITEMS", "", FALSE),
                       BackendCall("ghostSignal", DFMROOT_ROOT, fi.url.path, FALSE) >>]

\* setLocalDiskAlias that raises the ghost signal before it stores the list
M_setLocalDiskAlias_signalFirst(list, fi, alias) ==
    IF ~fi.canRename \/ fi.uuid = ""
    THEN [ok |-> FALSE, list |-> list, calls |-> <<>>]
    ELSE [ok |-> TRUE,
          list |-> M_setLocalDiskAlias_moveToEnd(list, fi, alias).list,
          calls |-> << BackendCall("ghostSignal", DFMROOT_ROOT, fi.url.path, FALSE),
                       BackendCall("setValue", "DISKALIAS_ITEMS", "", FALSE) >>]

\* setLocalDiskAlias without the test for an empty UUID
M_setLocalDiskAlias_noUuidCheck(list, fi, alias) ==
    IF ~fi.canRename
    THEN [ok |-> FALSE, list |-> list, calls |-> <<>>]
    ELSE [ok |-> TRUE,
          list |-> IF fi.uuid = "" THEN list ELSE M_setLocalDiskAlias_moveToEnd(list, fi, alias).list,
          calls |-> << BackendCall("setValue", "DISKALIAS_ITEMS", "", FALSE),
                       BackendCall("ghostSignal", DFMROOT_ROOT, fi.url.path, FALSE) >>]

\* DFMRootController::setLocalDiskAlias(fi, alias) on the persisted `list`:
\* the value it returns, the list it stores and the calls it makes
setLocalDiskAlias(list, fi, alias) ==
    IF ~fi.canRename \/ fi.uuid = ""
    THEN [ok |-> FALSE, list |-> list, calls |-> <<>>]
    ELSE LET uuid == fi.uuid
             dispalyAlias == trimmed(alias)
             displayName == fi.udisksDisplayName
             i == firstOf(list, uuid, 1)
             exists == i > 0
             \* [a] empty alias -> remove from list, [b] exists alias -> cover it
             looped == IF ~exists THEN list
                       ELSE IF dispalyAlias = "" THEN removeAt(list, i)
                       ELSE [list EXCEPT ![i] = [@ EXCEPT !.name = displayName,
                                                          !.alias = dispalyAlias]]
             \* [c] not exists -> append
             stored == IF ~exists /\ dispalyAlias # "" /\ uuid # ""
                       THEN Append(looped, AliasItem(uuid, displayName, dispalyAlias))
                       ELSE looped
         IN [ok |-> TRUE, list |-> stored,
             calls |-> << BackendCall("setValue", "DISKALIAS_ITEMS", "", FALSE),
                          BackendCall("ghostSignal", DFMROOT_ROOT, fi.url.path, FALSE) >>]

\* the label branch of renameFile that goes on after a failed unmount
M_renameLabel_ignoreUnmountError(fi, blk, destName, unmountErr, labelErr) ==
    IF fi.udisksDisplayName = destName
    THEN [ok |-> TRUE, calls |-> <<>>, unmounted |-> FALSE, labelled |-> FALSE]
    ELSE LET mounted == Len(blk.mountPoints) > 0
             unmount == IF mounted THEN <<BackendCall("unmount", blk.path, "", unmountErr)>> ELSE <<>>
         IN [ok |-> ~labelErr,
             calls |-> unmount \o <<BackendCall("setLabel", blk.path, destName, labelErr)>>,
             unmounted |-> mounted /\ ~unmountErr, labelled |-> ~labelErr]

\* the label branch of renameFile (from curName on): the value it returns,
\* the backend calls it makes, and whether the unmount and the label-set
\* took effect
renameLabel(fi, blk, destName, unmountErr, labelErr) ==
    LET curName == fi.udisksDisplayName
        mounted == Len(blk.mountPoints) > 0
    IN IF curName = destName
       THEN [ok |-> TRUE, calls |-> <<>>, unmounted |-> FALSE, labelled |-> FALSE]
       ELSE IF mounted /\ unmountErr
       THEN [ok |-> FALSE, calls |-> <<BackendCall("unmount", blk.path, "", TRUE)>>,
             unmounted |-> FALSE, labelled |-> FALSE]
       ELSE [ok |-> ~labelErr,
             calls |-> (IF mounted THEN <<BackendCall("unmount", blk.path, "", FALSE)>> ELSE <<>>)
                       \o <<BackendCall("setLabel", blk.path, destName, labelErr)>>,
             unmounted |-> mounted, labelled |-> ~labelErr]

\* a backend call on a device that is not there reports an error
backendErr(blk, err) == err \/ Mid(blk.path, Len(ObjPrefix)) \notin blockDevs

\* DFMRootController::renameFile(event): fi is the file info of
\* event->fromUrl(), newName is event->toUrl().path(); unmountErr and
\* labelErr say whether the backend reports an error for the call
renameFile(fi, newName, unmountErr, labelErr) ==
    /\ UNCHANGED loopVars
    /\ ~crashed
    /\ lastCall' = [op |-> "renameFile", entry |-> fi, newName |-> newName]
    /\ events' = <<>>
    /\ IF ~fi.canRename
       THEN /\ ret' = <<FALSE>> /\ calls' = <<>>
            /\ UNCHANGED <<aliasList, crashed, mountPoints, idLabel>>
       ELSE IF fi.canSetAlias
       THEN LET r == setLocalDiskAlias(aliasList, fi, newName)
            IN /\ ret' = <<r.ok>> /\ calls' = r.calls
               /\ aliasList' = r.list
               /\ UNCHANGED <<crashed, mountPoints, idLabel>>
       ELSE LET blk == createBlockDevice(fi.udisksblk, blockDevs)
                dev == Mid(blk.path, Len(ObjPrefix))
            IN IF assertsOn /\ ~(Len(blk.path) > 0)
               THEN /\ crashed' = TRUE
                    /\ ret' = <<>> /\ calls' = <<>>
                    /\ UNCHANGED <<aliasList, mountPoints, idLabel>>
               ELSE LET r == renameLabel(fi, blk, newName,
                                         backendErr(blk, unmountErr), backendErr(blk, labelErr))
                    IN /\ ret' = <<r.ok>> /\ calls' = r.calls
                       /\ mountPoints' = IF r.unmounted
                                         THEN [mountPoints EXCEPT ![dev] = <<>>]
                                         ELSE mountPoints
                       /\ idLabel' = IF r.labelled
                                     THEN [idLabel EXCEPT ![dev] = newName]
                                     ELSE idLabel
                       /\ UNCHANGED <<aliasList, crashed>>
    /\ UNCHANGED <<visVars, settingVars, gvfsVars, blockDevs, hiddenDirs, assertsOn, sessionVars, hist>>

\* the alias lists a session can find persisted: records of the internal
\* partition and of a disk that is no longer plugged in
OldItem == AliasItem("uuid-old", "Backup", "Work")
SdaItem == AliasItem("uuid-sda1", "System", "Data")
InitAliasLists == { <<>>, <<OldItem>>, <<SdaItem, OldItem>>, <<OldItem, SdaItem>> }

InitRename ==
    /\ blockDevs \in {Devs, Devs \ {"dm_2d0"}}
    /\ mountPoints = InitMountPoints
    /\ idLabel = InitLabels
    /\ hiddenDirs = {}
    /\ aliasList \in InitAliasLists
    /\ assertsOn \in BOOLEAN
    /\ crashed = FALSE
    /\ GA_HideLoopPartitions = TRUE
    /\ lastCall = [op |-> "new"] /\ ret = <<>> /\ events = <<>> /\ calls = <<>> /\ hist = <<>>
    /\ IdleLoop /\ IdleVis /\ IdleSession /\ IdleSwitches /\ IdleGvfs

\* renames of the entries that keep an alias, or refuse to be renamed
NextAlias == \E fi \in AliasEntries, newName \in NewNames : renameFile(fi, newName, FALSE, FALSE)

SpecAlias == InitRename /\ [][NextAlias]_vars

\* renames of the entries that carry an on-device label
NextLabel ==
    \E fi \in LabelEntries, newName \in NewNames, unmountErr \in BOOLEAN, labelErr \in BOOLEAN :
        renameFile(fi, newName, unmountErr, labelErr)

SpecLabel == InitRename /\ [][NextLabel]_vars

----------------------------------------------------------------------------
(* The root enumerator: DFMRootController::getChildren *)

BURN_SCHEME == "burn"

\* the characters QUrl::toPercentEncoding leaves as they are
Unreserved ==
    LET s == "abcdefghijklmnopqrstuvwxyzABCDEFGHIJKLMNOPQRSTUVWXYZ0123456789-._~"
    IN {SubSeq(s, i, i) : i \in 1..Len(s)}

\* the other characters of the paths used here, with their percent codes
PercentCodes ==
    << <<"/", "%2F">>, <<":", "%3A">>, <<"=", "%3D">>, <<",", "%2C">>,
       <<" ", "%20">>, <<"%", "%25">>, <<"@", "%40">> >>

\* the percent code of one character
percentCode(c) ==
    IF c \in Unreserved THEN c
    ELSE PercentCodes[CHOOSE i \in 1..Len(PercentCodes) : PercentCodes[i][1] = c][2]

\* QUrl::toPercentEncoding(s)
RECURSIVE toPercentEncoding(_)
toPercentEncoding(s) ==
    IF Len(s) = 0 THEN ""
    ELSE percentCode(SubSeq(s, 1, 1)) \o toPercentEncoding(Mid(s, 1))

\* QUrl::fromPercentEncoding(s)
RECURSIVE fromPercentEncoding(_)
fromPercentEncoding(s) ==
    IF Len(s) = 0 THEN ""
    ELSE IF Len(s) >= 3 /\ \E i \in 1..Len(PercentCodes) : PercentCodes[i][2] = SubSeq(s, 1, 3)
    THEN PercentCodes[CHOOSE i \in 1..Len(PercentCodes) : PercentCodes[i][2] = SubSeq(s, 1, 3)][1]
         \o fromPercentEncoding(Mid(s, 3))
    ELSE SubSeq(s, 1, 1) \o fromPercentEncoding(Mid(s, 1))

\* the user directories getChildren asks for, in its order
udir == <<"desktop", "videos", "music", "pictures", "documents", "downloads">>

\* the user directories that exist (DFMRootFileInfo::exists of a user directory)
ExistingUserDirs == {"desktop", "documents", "downloads"}

\* the mounts of the mount backend, as getChildren reads them: the volume it
\* belongs to ("" for none), its class, whether it has a root file, the root
\* file's uri and path, and whether deviceListener->isFromNativeBlockDev
\* holds of the path
GvfsMount(volume, mountClass, hasRootFile, uri, path, native) ==
    [ volume |-> volume, mountClass |-> mountClass, hasRootFile |-> hasRootFile,
      uri |-> uri, path |-> path, native |-> native ]

\* the mounts in the order getMounts() lists them
MountOrder == <<"smb", "smb-again", "mtp", "secret", "unix", "burn", "media", "media-proto", "noroot",
               "nopath", "bare", "sftp">>
MountNames == {MountOrder[i] : i \in 1..Len(MountOrder)}

SmbPath == "/gvfs/smb-share:server=nas,share=doc"

\* smb: a network share (smb-again: the same mount point listed once more);
\* mtp: a phone; secret: the projection of a block device by the UDisks2
\* monitor; unix: a kernel mount; burn: a disc-image mount; media: a block
\* device the OS mounted under /media; media-proto: a protocol device mounted
\* under /media; noroot: a mount without a root file; nopath, bare, sftp:
\* protocol mounts whose root file gives an uri but no path
MountCatalog ==
    [ n \in MountNames |->
        CASE n = "smb" -> GvfsMount("", "GDaemonMount", TRUE, "smb://nas/doc/", SmbPath, FALSE)
          [] n = "smb-again" -> GvfsMount("", "GDaemonMount", TRUE, "smb://nas/doc/", SmbPath, FALSE)
          [] n = "mtp" -> GvfsMount("phone", "GProxyShadowMount", TRUE, "mtp://phone/", "/gvfs/mtp:host=phone", FALSE)
          [] n = "secret" -> GvfsMount("vol-dm0", "GProxyMount", TRUE, "file:///media/u/Secret", "/media/u/Secret", TRUE)
          [] n = "unix" -> GvfsMount("", "GUnixMount", TRUE, "file:///mnt/data", "/mnt/data", FALSE)
          [] n = "burn" -> GvfsMount("", "GDaemonMount", TRUE, "burn:///", "/gvfs/burn", FALSE)
          [] n = "media" -> GvfsMount("", "GProxyMount", TRUE, "file:///media/u/disk", "/media/u/disk", TRUE)
          [] n = "media-proto" -> GvfsMount("", "GProxyMount", TRUE, "file:///media/u/cam", "/media/u/cam", FALSE)
          [] n = "nopath" -> GvfsMount("", "GDaemonMount", TRUE, "smb://nas/tmp/", "", FALSE)
          [] n = "bare" -> GvfsMount("", "GDaemonMount", TRUE, "smb://nas", "", FALSE)
          [] n = "sftp" -> GvfsMount("", "GDaemonMount", TRUE, "sftp://host:22/", "", FALSE)
          [] OTHER -> GvfsMount("", "GDaemonMount", FALSE, "", "", FALSE) ]

\* the volumes: the name of the monitor that owns each, and its mount
VolumeCatalog ==
    [ v \in {"phone", "vol-dm0"} |->
        IF v = "phone" THEN [volumeMonitorName |-> "GProxyVolumeMonitorMTP", mount |-> "mtp"]
        ELSE [volumeMonitorName |-> "GProxyVolumeMonitorUDisks2", mount |-> "secret"] ]

\* DGioVolume::volumeMonitorName of the volume of a mount ("" without volume)
volumeMonitorName(v) == IF v \in DOMAIN VolumeCatalog THEN VolumeCatalog[v].volumeMonitorName ELSE ""

\* volumeMonitorName().contains(QRegularExpression("(MTP|GPhoto2|Afc)$"))
isAutoMountMonitor(name) == EndsWith(name, "MTP") \/ EndsWith(name, "GPhoto2") \/ EndsWith(name, "Afc")

\* DGioVolumeManager::getMounts(): the live mounts in the backend's order
getMounts(live) == SelectSeq(MountOrder, LAMBDA n : n \in live)

\* the side-car files: the UUIDs recorded in <mount point>/UOSICON/diskinfo.json
diskInfoFile(mpPath) == IF mpPath = "/UOSICON" THEN {"uuid-sda1"} ELSE {}

\* DFMRootController::reloadBlkName(blkPath, blk): the UUIDs it loads into
\* DFMRootFileInfo::DiskInfoMap
reloadBlkName(blk) ==
    IF blk.mountPoints = <<>> THEN {}
    ELSE LET mp == blk.mountPoints[1]
             mpPath == IF EndsWith(mp, "/") THEN mp ELSE mp \o "/"
         IN diskInfoFile(mpPath \o "UOSICON")

\* the address of a block-device entry
blkEntryUrl(blk) == DUrl(DFMROOT_ROOT \o Mid(blk.device, Len("/dev/")) \o "." \o SUFFIX_UDISKS)

\* the system-disk check of the block loop that reads the switch whether or
\* not a managed list exists
M_hiddenBySystemPolicy_switchAlways(blk) ==
    IF DTK_POLICY_SUPPORT
    THEN \/ hasSetDiskPolicy /\ blk.hintSystem /\ InList(diskPolicyList, blk.idUUID)
         \/ GA_HiddenSystemPartition /\ blk.hintSystem
    ELSE GA_HiddenSystemPartition /\ blk.hintSystem

\* the system-disk policy layer of the block loop: TRUE when the device is
\* left out
hiddenBySystemPolicy(blk) ==
    IF DTK_POLICY_SUPPORT
    THEN \/ hasSetDiskPolicy /\ blk.hintSystem /\ InList(diskPolicyList, blk.idUUID)
         \/ ~hasSetDiskPolicy /\ GA_HiddenSystemPartition /\ blk.hintSystem
    ELSE GA_HiddenSystemPartition /\ blk.hintSystem

\* the block-device loop of getChildren from position i of blkds on; acc
\* holds ret, hintSystemDisks and the UUIDs loaded from side-car files
RECURSIVE blockLoop(_, _, _)
blockLoop(blkds, i, acc) ==
    IF i > Len(blkds) THEN acc
    ELSE LET blks == blkds[i]
             blk == createBlockDevice(blks, blockDevs)
             drv == createDiskDevice(blk.drive)
         IN IF ignoreBlkDevice(blks, blk, drv) THEN blockLoop(blkds, i + 1, acc)
            ELSE LET loaded == [acc EXCEPT !.diskInfo = @ \cup reloadBlkName(blk)]
                     policySkip == DTK_POLICY_SUPPORT /\ hasSetDiskPolicy /\ blk.hintSystem
                                   /\ InList(diskPolicyList, blk.idUUID)
                     hinted == IF DTK_POLICY_SUPPORT /\ ~policySkip /\ blk.hintSystem
                               THEN [loaded EXCEPT !.hintSystemDisks = Append(@, blk.idUUID)]
                               ELSE loaded
                 IN IF hiddenBySystemPolicy(blk) THEN blockLoop(blkds, i + 1, hinted)
                    ELSE blockLoop(blkds, i + 1, [hinted EXCEPT !.ret = Append(@, blkEntryUrl(blk))])

\* the skip rules of the mount loop
skipMount(mnt) ==
    \/ mnt.volume # "" /\ EndsWith(volumeMonitorName(mnt.volume), "UDisks2")
    \/ mnt.mountClass = "GUnixMount"
    \/ ~mnt.hasRootFile
    \/ DUrl(mnt.uri).scheme = BURN_SCHEME
    \/ StartsWith(mnt.uri, "file:///media/") /\ mnt.native

\* the key of a live mount in urllist, which is the path of its address
gvfsmpKey(path) == "/" \o toPercentEncoding(path) \o "." \o SUFFIX_GVFSMP

\* the address of the entry of a live mount
gvfsmpUrl(path) == makeAbsolute([scheme |-> DFMROOT_SCHEME, path |-> gvfsmpKey(path)])

\* DFMRootFileInfo::exists of the entry of a live mount: the mount is there
gvfsmpExists(mnt) == mnt.hasRootFile

\* the mount loop of getChildren from position i of mnts on; acc holds ret
\* and urllist
RECURSIVE mountLoop(_, _, _)
mountLoop(mnts, i, acc) ==
    IF i > Len(mnts) THEN acc
    ELSE LET mnt == MountCatalog[mnts[i]] IN
         IF skipMount(mnt) THEN mountLoop(mnts, i + 1, acc)
         ELSE IF InList(acc.urllist, gvfsmpKey(mnt.path)) THEN mountLoop(mnts, i + 1, acc)
         ELSE mountLoop(mnts, i + 1,
                  [acc EXCEPT !.urllist = Append(@, gvfsmpKey(mnt.path)),
                              !.ret = IF gvfsmpExists(mnt) THEN Append(@, gvfsmpUrl(mnt.path)) ELSE @])

\* QVariantMap::value(key).toString(): "" for a key the map does not hold
mapValue(map, key) == IF key \in DOMAIN map THEN map[key] ELSE ""

\* the address of the entry of a stashed mount
stashedUrl(protocol, host, share) ==
    DUrl(fromPercentEncoding(DFMROOT_ROOT \o protocol \o "://" \o host \o "/" \o share
                             \o "." \o SUFFIX_STASHED_REMOTE))

\* the key a stashed mount is looked up by in urllist
stashedKey(mount) == "/" \o toPercentEncoding(mapValue(mount, "key") \o "." \o SUFFIX_GVFSMP)

\* the stash loop that does not look a stashed mount up in urllist
RECURSIVE M_stashLoop_noLiveCheck(_, _, _)
M_stashLoop_noLiveCheck(stashedMounts, i, acc) ==
    IF i > Len(stashedMounts) THEN acc
    ELSE LET mount == stashedMounts[i] IN
         IF "key" \notin DOMAIN mount THEN M_stashLoop_noLiveCheck(stashedMounts, i + 1, acc)
         ELSE IF ~("protocol" \in DOMAIN mount /\ "host" \in DOMAIN mount)
         THEN M_stashLoop_noLiveCheck(stashedMounts, i + 1, acc)
         ELSE IF mount.protocol = "" \/ mount.host = ""
         THEN M_stashLoop_noLiveCheck(stashedMounts, i + 1, acc)
         ELSE IF ~isIntegrationMode
         THEN M_stashLoop_noLiveCheck(stashedMounts, i + 1,
                  [acc EXCEPT !.ret = Append(@, stashedUrl(mount.protocol, mount.host, mapValue(mount, "share")))])
         ELSE M_stashLoop_noLiveCheck(stashedMounts, i + 1, acc)

\* the stash loop of getChildren from position i of stashedMounts on
RECURSIVE stashLoop(_, _, _)
stashLoop(stashedMounts, i, acc) ==
    IF i > Len(stashedMounts) THEN acc
    ELSE LET mount == stashedMounts[i] IN
         IF "key" \notin DOMAIN mount THEN stashLoop(stashedMounts, i + 1, acc)
         ELSE IF InList(acc.urllist, stashedKey(mount)) THEN stashLoop(stashedMounts, i + 1, acc)
         ELSE IF ~("protocol" \in DOMAIN mount /\ "host" \in DOMAIN mount)
         THEN stashLoop(stashedMounts, i + 1, acc)
         ELSE IF mount.protocol = "" \/ mount.host = ""
         THEN stashLoop(stashedMounts, i + 1, acc)
         ELSE IF ~isIntegrationMode
         THEN stashLoop(stashedMounts, i + 1,
                  [acc EXCEPT !.ret = Append(@, stashedUrl(mount.protocol, mount.host, mapValue(mount, "share")))])
         ELSE stashLoop(stashedMounts, i + 1, acc)

\* the reconciliation without the case of the empty managed list
M_reconciledSwitch_noEmptyCase(hintSystemDisks) ==
    IF DTK_POLICY_SUPPORT /\ hasSetDiskPolicy
    THEN \A i \in 1..Len(hintSystemDisks) : InList(diskPolicyList, hintSystemDisks[i])
    ELSE GA_HiddenSystemPartition

\* the switch as the end of getChildren leaves it
reconciledSwitch(hintSystemDisks) ==
    IF DTK_POLICY_SUPPORT /\ hasSetDiskPolicy
    THEN IF diskPolicyList = <<>> THEN FALSE
         ELSE \A i \in 1..Len(hintSystemDisks) : InList(diskPolicyList, hintSystemDisks[i])
    ELSE GA_HiddenSystemPartition

\* the volumes getChildren asks a mount() for
autoMounts ==
    {v \in volumes : isAutoMountMonitor(volumeMonitorName(v)) /\ VolumeCatalog[v].mount \notin mounts}

\* DFMRootController::getChildren(event) for event->url() and
\* event->canconst()
getChildren(url, canconst) ==
    /\ UNCHANGED loopVars
    /\ ~crashed
    /\ lastCall' = [op |-> "getChildren", url |-> url, canconst |-> canconst]
    /\ events' = <<>> /\ calls' = <<>>
    /\ IF url.scheme # DFMROOT_SCHEME \/ url.path # "/"
       THEN /\ ret' = << <<>> >>
            /\ UNCHANGED <<GA_HiddenSystemPartition, mountRequests, DiskInfoMap>>
       ELSE LET userDirs == SelectSeq(udir, LAMBDA d : d \in ExistingUserDirs)
                start0 == [ ret |-> [i \in 1..Len(userDirs) |->
                                        DUrl(DFMROOT_ROOT \o userDirs[i] \o "." \o SUFFIX_USRDIR)],
                            hintSystemDisks |-> <<>>, diskInfo |-> {}, urllist |-> <<>> ]
                afterBlocks == blockLoop(blockDevices(blockDevs), 1, start0)
                afterMounts == mountLoop(getMounts(mounts), 1, afterBlocks)
                afterStash == IF GA_AlwaysShowOfflineRemoteConnections
                              THEN stashLoop(stash, 1, afterMounts)
                              ELSE afterMounts
            IN /\ mountRequests' = mountRequests \cup autoMounts
               /\ DiskInfoMap' = DiskInfoMap \cup afterBlocks.diskInfo
               /\ IF canconst
                  THEN /\ ret' = <<afterBlocks.ret>>
                       /\ UNCHANGED GA_HiddenSystemPartition
                  ELSE /\ ret' = <<afterStash.ret>>
                       /\ GA_HiddenSystemPartition' = reconciledSwitch(afterBlocks.hintSystemDisks)
    /\ UNCHANGED <<visVars, GA_HideLoopPartitions, GA_AlwaysShowOfflineRemoteConnections,
                   DTK_POLICY_SUPPORT, hasSetDiskPolicy, diskPolicyList, isIntegrationMode,
                   backendVars, mounts, volumes, stash, renameVars, sessionVars>>

\* a client's List call: hist keeps the last two calls made with no backend
\* change in between, each with what it returned
listCall(url, canconst) ==
    /\ getChildren(url, canconst)
    /\ hist' = (IF hist = <<>> THEN <<>> ELSE <<hist[Len(hist)]>>)
                \o <<[call |-> lastCall', ret |-> ret'[1]]>>

\* the mount backend gains a mount: a share is connected, a device plugged in
mountAppears(n) ==
    /\ UNCHANGED loopVars
    /\ n \notin mounts
    /\ mounts' = mounts \cup {n}
    /\ mountRequests' = mountRequests \ {v \in mountRequests : VolumeCatalog[v].mount = n}
    /\ lastCall' = [op |-> "backend"] /\ ret' = <<>> /\ events' = <<>> /\ calls' = <<>>
    /\ hist' = <<>>
    /\ UNCHANGED <<visVars, settingVars, backendVars, volumes, stash, DiskInfoMap,
                   renameVars, sessionVars>>

\* the mount backend loses a mount
mountDisappears(n) ==
    /\ UNCHANGED loopVars
    /\ n \in mounts
    /\ mounts' = mounts \ {n}
    /\ lastCall' = [op |-> "backend"] /\ ret' = <<>> /\ events' = <<>> /\ calls' = <<>>
    /\ hist' = <<>>
    /\ UNCHANGED <<visVars, settingVars, backendVars, volumes, mountRequests, stash, DiskInfoMap,
                   renameVars, sessionVars>>

\* the records of the offline stash: of the share that may be live, of a
\* share that is offline, of an ftp server (no share), and invalid ones
StashSmb == [key |-> SmbPath, protocol |-> "smb", host |-> "nas", share |-> "doc"]
StashOld == [key |-> "/gvfs/smb-share:server=old,share=pub", protocol |-> "smb", host |-> "old", share |-> "pub"]
StashFtp == [key |-> "/gvfs/ftp:host=ftp1", protocol |-> "ftp", host |-> "ftp1"]
StashNoKey == [protocol |-> "smb", host |-> "nas", share |-> "doc"]
StashNoHost == [key |-> "/gvfs/dav:host=", protocol |-> "dav"]
StashEmptyHost == [key |-> "/gvfs/sftp:host=", protocol |-> "sftp", host |-> "", share |-> ""]
InitStashes ==
    { <<>>, <<StashSmb, StashOld>>, <<StashFtp, StashNoKey, StashSmb, StashNoHost, StashEmptyHost>> }

\* the mounts that come and go while the others stay
DynamicMounts == {"smb", "mtp"}
StaticMounts == MountNames \ DynamicMounts

\* the managed hidden-disk lists
InitPolicyLists == { <<>>, <<"uuid-sda1">>, <<"uuid-other">> }

InitList ==
    /\ blockDevs = Devs
    /\ mountPoints = InitMountPoints
    /\ idLabel = InitLabels
    /\ hiddenDirs = {}
    /\ mounts \in {{}, StaticMounts}
    /\ volumes = {"phone", "vol-dm0"}
    /\ mountRequests = {}
    /\ stash \in InitStashes
    /\ DiskInfoMap = {}
    /\ GA_HideLoopPartitions = FALSE
    /\ GA_HiddenSystemPartition \in BOOLEAN
    /\ GA_AlwaysShowOfflineRemoteConnections \in BOOLEAN
    /\ DTK_POLICY_SUPPORT \in BOOLEAN
    /\ hasSetDiskPolicy \in BOOLEAN
    /\ diskPolicyList \in InitPolicyLists
    /\ (DTK_POLICY_SUPPORT /\ hasSetDiskPolicy) \/ (~hasSetDiskPolicy /\ diskPolicyList = <<>>)
    /\ isIntegrationMode \in BOOLEAN
    /\ lastCall = [op |-> "new"] /\ ret = <<>> /\ events = <<>> /\ calls = <<>> /\ hist = <<>>
    /\ IdleLoop /\ IdleVis /\ IdleRename /\ IdleSession

\* the addresses List is asked for
ListUrls == {RootUrl, DUrl(DFMROOT_ROOT \o "sda1." \o SUFFIX_UDISKS)}

NextList ==
    \/ \E url \in ListUrls, canconst \in BOOLEAN : listCall(url, canconst)
    \/ \E n \in DynamicMounts : mountAppears(n)
    \/ \E n \in DynamicMounts : mountDisappears(n)

SpecList == InitList /\ [][NextList]_vars

\* List() on machines that differ in the block devices present and in the
\* system-disk policy; no mount is live and nothing is stashed
InitDisks ==
    /\ blockDevs \in PresentSets
    /\ mountPoints = InitMountPoints
    /\ idLabel = InitLabels
    /\ hiddenDirs = {}
    /\ mounts = {} /\ volumes = {} /\ mountRequests = {} /\ stash = <<>> /\ DiskInfoMap = {}
    /\ GA_HideLoopPartitions \in BOOLEAN
    /\ GA_HiddenSystemPartition \in BOOLEAN
    /\ GA_AlwaysShowOfflineRemoteConnections = FALSE
    /\ DTK_POLICY_SUPPORT \in BOOLEAN
    /\ hasSetDiskPolicy \in BOOLEAN
    /\ diskPolicyList \in InitPolicyLists
    /\ (DTK_POLICY_SUPPORT /\ hasSetDiskPolicy) \/ (~hasSetDiskPolicy /\ diskPolicyList = <<>>)
    /\ isIntegrationMode = FALSE
    /\ lastCall = [op |-> "new"] /\ ret = <<>> /\ events = <<>> /\ calls = <<>> /\ hist = <<>>
    /\ IdleLoop /\ IdleVis /\ IdleRename /\ IdleSession

NextDisks == \E url \in ListUrls, canconst \in BOOLEAN : listCall(url, canconst)

SpecDisks == InitDisks /\ [][NextDisks]_vars

----------------------------------------------------------------------------
(* C4 *)

\* the claim's precedence list: each rule is a condition and a verdict
VisibilityRules(b, d, hideLoop) ==
    << [when |-> b.hintIgnore,                                        hidden |-> TRUE],
       [when |-> \E i \in 1..Len(d.mediaCompatibility) :
                    Contains(d.mediaCompatibility[i], "optical"),      hidden |-> FALSE],
       [when |-> b.isEncrypted,                                       hidden |-> FALSE],
       [when |-> b.hasPartition /\ b.eType \in ExtendedTypes,         hidden |-> TRUE],
       [when |-> b.hasFileSystem /\ b.isLoopDevice,                   hidden |-> hideLoop],
       [when |-> b.hasFileSystem /\ b.cryptoBackingDevice \notin {"", "/"}, hidden |-> TRUE],
       [when |-> b.hasFileSystem,                                     hidden |-> FALSE],
       [when |-> b.hasPartitionTable,                                 hidden |-> TRUE],
       [when |-> ~d.removable,                                        hidden |-> TRUE],
       [when |-> b.size < 1024,                                       hidden |-> TRUE],
       [when |-> TRUE,                                                hidden |-> FALSE] >>

FirstMatch(rules) == rules[CHOOSE i \in 1..Len(rules) : rules[i].when /\ \A j \in 1..(i - 1) : ~rules[j].when]

\* C4: for every combination of block-device and drive facts the decision
\* returned by ignoreBlkDevice is the verdict of the first matching rule of
\* the precedence list (ignore hint, optical drive, encrypted container,
\* extended partition, filesystem rules, no-filesystem rules).
C4_VisibilityPrecedence ==
    ignored # <<>> =>
        ignored[1] = FirstMatch(VisibilityRules(argBlk, argDrv, GA_HideLoopPartitions)).hidden

\* C4 witness: a filesystem-less device on a removable drive decided by the
\* size rule alone (rule 6, last hidden case) has been evaluated as hidden.
C4_Witness ==
    /\ ignored = <<TRUE>>
    /\ ~argBlk.hintIgnore /\ ~argBlk.isEncrypted /\ ~argBlk.hasFileSystem
    /\ ~argBlk.hasPartitionTable /\ argDrv.removable /\ argBlk.size = 1023
    /\ argDrv.mediaCompatibility = <<"thumb">>

----------------------------------------------------------------------------
(* C1 *)

\* C1: on a virtual-root session the client's first Start returns true and
\* its second Start returns false, and the second call adds nothing: the
\* listener list, the device references, the dedup keys, the backend
\* managers and the started flag are what they were before it.
C1_SecondStartIsNoOp ==
    [][ (Len(hist) = 1 /\ Len(hist') = 2) =>
            /\ hist[1] = TRUE
            /\ hist'[2] = FALSE
            /\ ret' = <<FALSE>>
            /\ UNCHANGED <<connections, blkdevs, connectionsurl, started, vfsmgr, udisksmgr>> ]_vars

\* C1 witness: both Start calls have returned, on a session that registered
\* attribute listeners for at least one device.
C1_Witness ==
    /\ fileUrl = RootUrl
    /\ hist = <<TRUE, FALSE>>
    /\ lastCall.op = "start"
    /\ connectionsurl # <<>>

----------------------------------------------------------------------------
(* C2 *)

\* C2: a Stop call on a started session returns true and leaves no listener
\* (neither on a backend manager nor on a device), no dedup key and no device
\* reference; a Stop call on a session that is not started returns false and
\* changes nothing; the client's calls Start, Start, Stop, Stop return true,
\* false, true, false.
C2_StopClearsOnce ==
    /\ [][ (Len(hist) >= 2 /\ Len(hist') = Len(hist) + 1) =>
             IF started
             THEN /\ ret' = <<TRUE>>
                  /\ connections' = <<>> /\ connectionsurl' = <<>> /\ blkdevs' = <<>>
                  /\ ~started' /\ ~vfsmgr' /\ udisksmgr' = "null"
             ELSE /\ ret' = <<FALSE>>
                  /\ UNCHANGED sessionVars ]_vars
    /\ [](Len(hist) = 4 => hist = <<TRUE, FALSE, TRUE, FALSE>>)

\* C2 witness: the fourth call has returned, after a Stop that found
\* listeners to detach (a device was announced between the calls).
C2_Witness ==
    /\ Len(hist) = 4
    /\ lastCall.op = "stop"
    /\ connections = <<>>
    /\ blockDevs # {}

----------------------------------------------------------------------------
(* C3 *)

\* C3: a Start call on a session whose target is not the virtual root returns
\* false and leaves the session as it was: not started, no backend manager,
\* no listener, no dedup key, no device reference.
C3_StartWrongTarget ==
    [][ (fileUrl # RootUrl /\ lastCall'.op = "start") =>
            /\ ret' = <<FALSE>>
            /\ UNCHANGED sessionVars
            /\ ~started' /\ ~vfsmgr' /\ udisksmgr' = "null"
            /\ connections' = <<>> /\ connectionsurl' = <<>> /\ blkdevs' = <<>> ]_vars

\* C3 witness: Start has been refused on a session for another address while
\* visible devices were present.
C3_Witness ==
    /\ fileUrl # RootUrl
    /\ lastCall.op = "start"
    /\ ret = <<FALSE>>
    /\ "sda1" \in blockDevs

----------------------------------------------------------------------------
(* C5 *)

LoopPrefix == "/dev/loop"

\* C5: a ghost signal for the virtual root is accepted exactly when its path
\* begins with /dev/loop and its kind is deleted or created; a deleted signal
\* for such a path emits one Deleted event for the address
\* dfmroot:///<device name>.localdisk, and nothing else emits an event.
C5_GhostSignal ==
    lastCall.op = "handleGhostSignal" =>
        LET p == lastCall.url.path
            isLoop == Len(p) >= Len(LoopPrefix) /\ SubSeq(p, 1, Len(LoopPrefix)) = LoopPrefix
            accepted == isLoop /\ lastCall.signal \in {"fileDeleted", "subfileCreated"}
        IN /\ ret = <<accepted>>
           /\ events = IF isLoop /\ lastCall.signal = "fileDeleted"
                       THEN << [signal |-> "fileDeleted",
                                url |-> [scheme |-> "dfmroot",
                                         path |-> "/" \o SubSeq(p, 6, Len(p)) \o ".localdisk"]] >>
                       ELSE <<>>

\* C5 witness: the deleted signal for /dev/loop5 was accepted and emitted its
\* Deleted event.
C5_Witness ==
    /\ lastCall.op = "handleGhostSignal"
    /\ lastCall.url.path = "/dev/loop5"
    /\ lastCall.signal = "fileDeleted"
    /\ ret = <<TRUE>>
    /\ Len(events) = 1

\* C5 witness of the rejected case: /dev/sda1 with deleted.
C5_WitnessRejected ==
    /\ lastCall.op = "handleGhostSignal"
    /\ lastCall.url.path = "/dev/sda1"
    /\ lastCall.signal = "fileDeleted"
    /\ ret = <<FALSE>>

----------------------------------------------------------------------------
(* C6 *)

\* the positions of the records of `uuid` in an alias list
PositionsOf(list, uuid) == {j \in 1..Len(list) : list[j].uuid = uuid}

\* the list without its position i
Without(list, i) == [j \in 1..(Len(list) - 1) |-> IF j < i THEN list[j] ELSE list[j + 1]]

\* a step that is a successful rename of an alias-capable entry
AliasStep ==
    /\ lastCall'.op = "renameFile"
    /\ lastCall'.entry.canSetAlias
    /\ ret' = <<TRUE>>

\* the three ways of updating the alias list, for a name that counts as
\* empty when `empty` says so and is stored as `stored`
ThreeWays(empty, stored) ==
    LET U == lastCall'.entry.uuid
        P == PositionsOf(aliasList, U)
        rec == AliasItem(U, lastCall'.entry.udisksDisplayName, stored)
    IN IF empty
       THEN /\ PositionsOf(aliasList', U) = {}
            /\ \/ P = {} /\ aliasList' = aliasList
               \/ \E i \in P : aliasList' = Without(aliasList, i)
       ELSE IF P # {}
       THEN \E i \in P : /\ Len(aliasList') = Len(aliasList)
                         /\ aliasList'[i] = rec
                         /\ \A j \in 1..Len(aliasList) : j # i => aliasList'[j] = aliasList[j]
       ELSE aliasList' = Append(aliasList, rec)

\* C6 (as the code has it): a successful Rename of an alias-capable entry
\* with UUID U updates the persisted alias list in exactly one of three ways,
\* decided on the new name with its surrounding whitespace removed: if the
\* trimmed name is empty U's record is deleted; else if U has a record it is
\* overwritten at the same position with the trimmed name and every other
\* record keeps its content and position; else one record for U holding the
\* trimmed name is appended at the end.
C6_AliasThreeWays ==
    [][ AliasStep => ThreeWays(trimmed(lastCall'.newName) = "", trimmed(lastCall'.newName)) ]_vars

\* C6 as stated: the three ways decided on the new name as given (only the
\* empty string deletes, the name is stored as given)
C6_AsStated ==
    [][ AliasStep => ThreeWays(lastCall'.newName = "", lastCall'.newName) ]_vars

\* C6: the record of the internal partition was overwritten in place, ahead
\* of the record of another disk, which was kept
C6_Witness ==
    /\ lastCall.op = "renameFile"
    /\ lastCall.entry.uuid = "uuid-sda1" /\ lastCall.newName = "Work"
    /\ ret = <<TRUE>>
    /\ aliasList = <<AliasItem("uuid-sda1", "System", "Work"), OldItem>>

----------------------------------------------------------------------------
(* C7 *)

\* the display name the enumeration resolves for an entry: the alias of its
\* UUID if the alias store has one, else the name the backend reports
displayName(list, fi) ==
    IF PositionsOf(list, fi.uuid) # {}
    THEN list[CHOOSE i \in PositionsOf(list, fi.uuid) : \A j \in PositionsOf(list, fi.uuid) : i <= j].alias
    ELSE fi.udisksDisplayName

\* the state after a successful rename of an alias-capable entry
AfterAliasRename ==
    /\ lastCall.op = "renameFile"
    /\ lastCall.entry.canSetAlias
    /\ ret = <<TRUE>>

\* the alias round trip for a name that counts as empty when `empty` says so
\* and is stored and shown as `shown`
RoundTrip(empty, shown) ==
    LET fi == lastCall.entry
        P == PositionsOf(aliasList, fi.uuid)
    IN IF empty
       THEN P = {} /\ displayName(aliasList, fi) = fi.udisksDisplayName
       ELSE /\ Cardinality(P) = 1
            /\ \A i \in P : aliasList[i].alias = shown
            /\ displayName(aliasList, fi) = shown

\* C7 (as the code has it): after Rename(entry with UUID U, X) where X is
\* not empty once its surrounding whitespace is removed, the alias store
\* holds one record for U whose alias is the trimmed X, so the display name
\* of U is the trimmed X; after a Rename of U with a name that is empty once
\* trimmed the store holds no record for U and the display name of U is the
\* canonical name again.
C7_AliasRoundTrip ==
    AfterAliasRename => RoundTrip(trimmed(lastCall.newName) = "", trimmed(lastCall.newName))

\* C7 as stated: the record holds X as given, and only "" removes it
C7_AsStated ==
    AfterAliasRename => RoundTrip(lastCall.newName = "", lastCall.newName)

\* C7: the alias of the internal partition has been removed again by a
\* Rename with the empty name, after it had been set
C7_Witness ==
    /\ AfterAliasRename
    /\ lastCall.entry.uuid = "uuid-sda1" /\ lastCall.newName = ""
    /\ aliasList = <<OldItem>>
    /\ displayName(aliasList, lastCall.entry) = "System"

----------------------------------------------------------------------------
(* C8 *)

\* the positions of the calls named `call` in a call log
CallsOf(log, call) == {i \in 1..Len(log) : log[i].call = call}

\* C8: a Rename of an on-disk-label entry to a name that differs from the
\* current one unmounts a mounted device before it sets the label; if the
\* unmount reports an error Rename returns false and no label-set is issued;
\* Rename returns true only when the label-set was its last call and reported
\* no error; unmount and label-set are each issued at most once.
C8_LabelRename ==
    [][ ( /\ lastCall'.op = "renameFile"
          /\ lastCall'.entry.canRename /\ ~lastCall'.entry.canSetAlias
          /\ lastCall'.newName # lastCall'.entry.udisksDisplayName )
        => LET dev == Mid(lastCall'.entry.udisksblk, Len(ObjPrefix))
               mounted == dev \in blockDevs /\ mountPoints[dev] # <<>>
               un == CallsOf(calls', "unmount")
               la == CallsOf(calls', "setLabel")
           IN /\ Cardinality(un) <= 1 /\ Cardinality(la) <= 1
              /\ Cardinality(un) + Cardinality(la) = Len(calls')
              /\ mounted => un # {}
              /\ \A i \in un, j \in la : i < j
              /\ (\E i \in un : calls'[i].err) => ret' = <<FALSE>> /\ la = {}
              /\ ret' = <<TRUE>> => /\ la # {}
                                    /\ \A j \in la : ~calls'[j].err /\ calls'[j].arg = lastCall'.newName
              /\ \A j \in la : calls'[j].err => ret' = <<FALSE>> ]_vars

\* C8: the mounted cleartext volume was unmounted, then labelled, and Rename
\* returned true
C8_Witness ==
    /\ lastCall.op = "renameFile" /\ lastCall.newName = "Data"
    /\ ret = <<TRUE>>
    /\ Len(calls) = 2 /\ calls[1].call = "unmount" /\ calls[2].call = "setLabel"
    /\ mountPoints["dm_2d0"] = <<>> /\ idLabel["dm_2d0"] = "Data"

----------------------------------------------------------------------------
(* C9 *)

\* the address of the live entry of the share smb://nas/doc, and of the
\* entry synthesized from its stash record
LiveSmbAddress ==
    [scheme |-> "dfmroot", path |-> "/%2Fgvfs%2Fsmb-share%3Aserver%3Dnas%2Cshare%3Ddoc.gvfsmp"]
OfflineSmbAddress == [scheme |-> "dfmroot", path |-> "/smb://nas/doc.remote"]

\* the share is in the live mount set and in the offline stash, "always show
\* offline connections" is on, and List has just been called on the root
SmbLiveAndStashed ==
    /\ lastCall.op = "getChildren" /\ lastCall.url = RootUrl
    /\ GA_AlwaysShowOfflineRemoteConnections
    /\ "smb" \in mounts
    /\ \E i \in 1..Len(stash) : stash[i] = StashSmb

\* List returned one entry for the share, which is the live one
OneLiveEntry ==
    /\ Cardinality({i \in 1..Len(ret[1]) : ret[1][i] \in {LiveSmbAddress, OfflineSmbAddress}}) = 1
    /\ \E i \in 1..Len(ret[1]) : ret[1][i] = LiveSmbAddress

\* C9 (as the code has it): with "always show offline connections" enabled,
\* if the same network mount is in the live mount set and in the offline
\* stash, a List() that is not restricted to the constant entries (canconst
\* not set) returns exactly one entry for it, and that entry is the live
\* NetworkMount entry, not a synthesized OfflineNetworkMount entry.
C9_LiveBeatsStash == (SmbLiveAndStashed /\ ~lastCall.canconst) => OneLiveEntry

\* C9 as stated: every List() on the root returns that one live entry
C9_AsStated == SmbLiveAndStashed => OneLiveEntry

\* C9: the share is live twice over and stashed, and List returned its live
\* entry once, next to the entry of a stashed ftp server that is offline
C9_Witness ==
    /\ SmbLiveAndStashed /\ ~lastCall.canconst
    /\ {"smb", "smb-again"} \subseteq mounts
    /\ ~isIntegrationMode
    /\ OneLiveEntry
    /\ \E i \in 1..Len(ret[1]) : ret[1][i] = [scheme |-> "dfmroot", path |-> "/ftp://ftp1/.remote"]

----------------------------------------------------------------------------
(* C10 *)

\* the addresses of a List result
Addresses(list) == {list[i] : i \in 1..Len(list)}

\* C10: two consecutive List() calls on the virtual root, the same call
\* repeated with no backend change in between, return the same set of
\* addresses.
C10_ListIdempotent ==
    ( /\ Len(hist) = 2
      /\ hist[1].call = hist[2].call
      /\ hist[1].call.url = RootUrl )
    => Addresses(hist[1].ret) = Addresses(hist[2].ret)

\* C10: List was called twice in a row on the root while a managed list that
\* names no present system disk exists; the first call turned the switch
\* off and asked for the phone to be mounted, and both calls returned the
\* system partition
C10_Witness ==
    /\ Len(hist) = 2 /\ hist[1].call = hist[2].call
    /\ hist[1].call.url = RootUrl /\ ~hist[1].call.canconst
    /\ DTK_POLICY_SUPPORT /\ hasSetDiskPolicy /\ diskPolicyList = <<"uuid-other">>
    /\ ~GA_HiddenSystemPartition
    /\ "phone" \in mountRequests
    /\ [scheme |-> "dfmroot", path |-> "/sda1.localdisk"] \in Addresses(hist[2].ret)
    /\ Addresses(hist[1].ret) = Addresses(hist[2].ret)

----------------------------------------------------------------------------
(* The mount callbacks of the watch session *)

\* no mount-added callback is delivered while MaxMounts mounts are live
MaxMounts == 2

\* getuid(), as the decimal string QString::number gives
Uid == "1000"

\* FileUtils::isSmbPath: the path is the mount point of a network share
isSmbPath(path) == Contains(path, "/gvfs/smb-share:server=")

\* mountRemoved handler: the path put together from the uri of a root file
\* that gives no path
pathFromUri(uri) ==
    LET qq == Split(Replace(uri, "/", ""), ":")
        gvfs == "/run/user/" \o Uid \o "/gvfs/"
    IN IF Len(qq) >= 3
       THEN gvfs \o qq[1] \o ":host=" \o qq[2] \o ",port=" \o qq[3]
       ELSE IF Len(qq) = 2
       THEN IF StartsWith(qq[1], "smb")
            THEN LET smblist == Split(Replace(uri, ":/", ""), "/")
                 IN IF Len(smblist) >= 3
                    THEN gvfs \o smblist[1] \o "-share:server=" \o smblist[2] \o ",share=" \o smblist[3]
                    ELSE ""
            ELSE gvfs \o qq[1] \o ":host=" \o qq[2]
       ELSE ""

\* what a slot leaves behind: the signals emitted, the calls made on the
\* collaborators, and whether the process was ended by the access
SlotResult(emitted, called, fatal) == [emitted |-> emitted, called |-> called, fatal |-> fatal]

\* the refresh hints sent through fileSignalManager
RefreshAll ==
    << BackendCall("requestFreshAllFileView", "fileSignalManager", "", ""),
       BackendCall("requestFreshAllDesktop", "fileSignalManager", "", "") >>

\* mnt->getRootFile()->... on a mount that has no root file dereferences a
\* null pointer: the access either ends the process ("fault") or reads an
\* empty uri and an empty path ("empty")
NullAccess == {"fault", "empty"}

\* the mountAdded slot that takes a root file without path as List() does
M_mountAddedSlot_noPathCheck(mnt, onNull) ==
    IF mnt.volume # "" /\ EndsWith(volumeMonitorName(mnt.volume), "UDisks2")
    THEN SlotResult(<<>>, <<>>, FALSE)
    ELSE IF ~mnt.hasRootFile /\ onNull = "fault" THEN SlotResult(<<>>, <<>>, TRUE)
    ELSE IF DUrl(mnt.uri).scheme = BURN_SCHEME THEN SlotResult(<<>>, <<>>, FALSE)
    ELSE IF mnt.mountClass = "GUnixMount" THEN SlotResult(<<>>, <<>>, FALSE)
    ELSE IF StartsWith(mnt.uri, "file:///media/") /\ mnt.native THEN SlotResult(<<>>, <<>>, FALSE)
    ELSE SlotResult(<<Emit("subfileCreated", gvfsmpUrl(mnt.path))>>,
                    IF isSmbPath(mnt.path)
                    THEN RefreshAll \o <<BackendCall("requestShowNewWindows", "fileSignalManager", "", "")>>
                    ELSE <<>>,
                    FALSE)

\* the slot start() connects to DGioVolumeManager::mountAdded
mountAddedSlot(mnt, onNull) ==
    IF mnt.volume # "" /\ EndsWith(volumeMonitorName(mnt.volume), "UDisks2")
    THEN SlotResult(<<>>, <<>>, FALSE)
    ELSE IF ~mnt.hasRootFile /\ onNull = "fault" THEN SlotResult(<<>>, <<>>, TRUE)
    ELSE IF DUrl(mnt.uri).scheme = BURN_SCHEME THEN SlotResult(<<>>, <<>>, FALSE)
    ELSE IF mnt.mountClass = "GUnixMount" THEN SlotResult(<<>>, <<>>, FALSE)
    ELSE IF Len(mnt.path) = 0 THEN SlotResult(<<>>, <<>>, FALSE)
    ELSE IF StartsWith(mnt.uri, "file:///media/") /\ mnt.native THEN SlotResult(<<>>, <<>>, FALSE)
    ELSE SlotResult(<<Emit("subfileCreated", gvfsmpUrl(mnt.path))>>,
                    IF isSmbPath(mnt.path)
                    THEN RefreshAll \o <<BackendCall("requestShowNewWindows", "fileSignalManager", "", "")>>
                    ELSE <<>>,
                    FALSE)

\* the uris whose removal also purges the network-node cache and unmounts again
isNetworkUri(uri) ==
    Contains(uri, "smb-share://") \/ Contains(uri, "smb://") \/ Contains(uri, "ftp://") \/ Contains(uri, "sftp://")

\* the slot start() connects to DGioVolumeManager::mountRemoved; batched and
\* remain are deviceListener's isBatchedRemovingSmbMount and
\* getCountOfMountedSmb of the uri's host
mountRemovedSlot(mnt, onNull, batched, remain) ==
    IF mnt.volume # "" /\ EndsWith(volumeMonitorName(mnt.volume), "UDisks2")
    THEN SlotResult(<<>>, <<>>, FALSE)
    ELSE IF ~mnt.hasRootFile /\ onNull = "fault" THEN SlotResult(<<>>, <<>>, TRUE)
    ELSE LET path == IF Len(mnt.path) = 0 THEN pathFromUri(mnt.uri) ELSE mnt.path
             props == IF isIntegrationMode
                      THEN << BackendCall("setProperty", "watcher", "isBathUnmuntSmb", ""),
                              BackendCall("setProperty", "watcher", "remainUnmuntSmb", "") >>
                      ELSE <<>>
             refresh == IF isSmbPath(path) /\ ~(batched /\ remain > 0)
                        THEN <<BackendCall("setBatchedRemovingSmbMount", "deviceListener", "false", "")>>
                             \o RefreshAll
                        ELSE <<>>
             purge == IF isNetworkUri(mnt.uri)
                      THEN << BackendCall("remove", "NetworkNodes", fromPercentEncoding(mnt.uri), ""),
                              BackendCall("unmount", "mount", mnt.uri, "") >>
                      ELSE <<>>
         IN SlotResult(<<Emit("fileDeleted", gvfsmpUrl(path))>>,
                       props \o <<BackendCall("requestRemoveRecentFile", "fileSignalManager", path, "")>>
                             \o refresh \o purge,
                       FALSE)

\* whether the session has the slot of `signal` connected to the mount backend
Listening(signal) == vfsmgr /\ Receivers(connections, "vfsmgr", signal) > 0

\* the mount backend gains mount n and raises mountAdded
mountAdded(n, onNull) ==
    /\ UNCHANGED loopVars
    /\ ~crashed
    /\ n \notin mounts
    /\ Cardinality(mounts) < MaxMounts
    /\ mounts' = mounts \cup {n}
    /\ mountRequests' = mountRequests \ {v \in mountRequests : VolumeCatalog[v].mount = n}
    /\ LET r == IF Listening("mountAdded") THEN mountAddedSlot(MountCatalog[n], onNull)
                ELSE SlotResult(<<>>, <<>>, FALSE)
       IN events' = r.emitted /\ calls' = r.called /\ crashed' = r.fatal
    /\ lastCall' = Call("mountAdded", n, onNull, NoUrl)
    /\ ret' = <<>>
    /\ UNCHANGED <<sessionVars, backendVars, hist, visVars, settingVars, volumes, stash, DiskInfoMap,
                   aliasList, assertsOn>>

\* the mount backend loses mount n and raises mountRemoved
mountRemoved(n, onNull, batched, remain) ==
    /\ UNCHANGED loopVars
    /\ ~crashed
    /\ n \in mounts
    /\ mounts' = mounts \ {n}
    /\ LET r == IF Listening("mountRemoved") THEN mountRemovedSlot(MountCatalog[n], onNull, batched, remain)
                ELSE SlotResult(<<>>, <<>>, FALSE)
       IN events' = r.emitted /\ calls' = r.called /\ crashed' = r.fatal
    /\ lastCall' = Call("mountRemoved", n, onNull, NoUrl)
    /\ ret' = <<>>
    /\ UNCHANGED <<sessionVars, backendVars, hist, visVars, settingVars, volumes, mountRequests, stash,
                   DiskInfoMap, aliasList, assertsOn>>

\* the mount backend gains volume v and raises volumeAdded: the slot asks
\* for the volume of a phone or camera to be mounted
volumeAdded(v) ==
    /\ UNCHANGED loopVars
    /\ ~crashed
    /\ v \notin volumes
    /\ volumes' = volumes \cup {v}
    /\ mountRequests' = IF Listening("volumeAdded") /\ isAutoMountMonitor(volumeMonitorName(v))
                        THEN mountRequests \cup {v}
                        ELSE mountRequests
    /\ events' = <<>> /\ calls' = <<>>
    /\ lastCall' = Call("volumeAdded", v, "", NoUrl)
    /\ ret' = <<>>
    /\ UNCHANGED <<sessionVars, backendVars, hist, visVars, settingVars, mounts, stash, DiskInfoMap,
                   renameVars>>

\* a watcher of the virtual root right after construction, on a machine with
\* the system partition only and no mount yet
InitMounts ==
    /\ fileUrl = RootUrl
    /\ started = FALSE /\ vfsmgr = FALSE /\ udisksmgr = "null"
    /\ connections = <<>> /\ blkdevs = <<>> /\ connectionsurl = <<>>
    /\ blockDevs = {"sda1"}
    /\ mountPoints = InitMountPoints
    /\ idLabel = InitLabels
    /\ hiddenDirs = {}
    /\ GA_HideLoopPartitions = FALSE
    /\ GA_HiddenSystemPartition = FALSE /\ GA_AlwaysShowOfflineRemoteConnections = FALSE
    /\ DTK_POLICY_SUPPORT = FALSE /\ hasSetDiskPolicy = FALSE /\ diskPolicyList = <<>>
    /\ isIntegrationMode \in BOOLEAN
    /\ lastCall = Call("new", "", "", NoUrl) /\ ret = <<>> /\ events = <<>> /\ calls = <<>> /\ hist = <<>>
    /\ mounts = {} /\ volumes = DOMAIN VolumeCatalog /\ mountRequests = {}
    /\ stash = <<>> /\ DiskInfoMap = {}
    /\ IdleLoop /\ IdleVis /\ IdleRename

\* the outcomes of the root-file access for mount n: it is in doubt only for
\* a mount without root file
OnNull(n) == IF MountCatalog[n].hasRootFile THEN {"valid"} ELSE NullAccess

\* whether shares are being unmounted in a batch: read for a share only
Batched(n) == IF isSmbPath(MountCatalog[n].path) THEN BOOLEAN ELSE {FALSE}

\* the number of shares of the same host still mounted: read for a share only
Remaining(n) == IF isSmbPath(MountCatalog[n].path) THEN 0..1 ELSE {0}

\* a session while mounts come and go
NextMounts ==
    \/ ~crashed /\ start /\ UNCHANGED hist
    \/ ~crashed /\ stop /\ UNCHANGED hist
    \/ \E n \in MountNames : \E onNull \in OnNull(n) : mountAdded(n, onNull)
    \/ \E n \in MountNames : \E onNull \in OnNull(n), batched \in Batched(n), remain \in Remaining(n) :
          mountRemoved(n, onNull, batched, remain)

SpecMounts == InitMounts /\ [][NextMounts]_vars

\* a session on a machine whose system partition, share and phone come and go
QuietMounts == {"smb", "mtp"}

NextQuiet ==
    \/ start /\ UNCHANGED hist
    \/ stop /\ UNCHANGED hist
    \/ \E n \in QuietMounts : mountAdded(n, "valid")
    \/ \E n \in QuietMounts : mountRemoved(n, "valid", FALSE, 0)
    \/ blockDeviceAdded("sda1")
    \/ blockDeviceRemoved("sda1")
    \/ \E signal \in BlkSignals : attributeChanged("sda1", signal)

SpecQuiet == InitMounts /\ [][NextQuiet]_vars

\* a session of the virtual root on machines that differ in the system-disk
\* policy, while the system partition and a loop device come and go and
\* List() is called
AgreeDevs == {"sda1", "loop5"}

InitAgree ==
    /\ fileUrl = RootUrl
    /\ started = FALSE /\ vfsmgr = FALSE /\ udisksmgr = "null"
    /\ connections = <<>> /\ blkdevs = <<>> /\ connectionsurl = <<>>
    /\ blockDevs \in SUBSET AgreeDevs
    /\ mountPoints = InitMountPoints
    /\ idLabel = InitLabels
    /\ hiddenDirs = {}
    /\ GA_HideLoopPartitions = TRUE
    /\ GA_HiddenSystemPartition \in BOOLEAN
    /\ GA_AlwaysShowOfflineRemoteConnections = FALSE
    /\ DTK_POLICY_SUPPORT \in BOOLEAN
    /\ hasSetDiskPolicy \in BOOLEAN
    /\ diskPolicyList \in InitPolicyLists
    /\ (DTK_POLICY_SUPPORT /\ hasSetDiskPolicy) \/ (~hasSetDiskPolicy /\ diskPolicyList = <<>>)
    /\ isIntegrationMode = FALSE
    /\ lastCall = Call("new", "", "", NoUrl) /\ ret = <<>> /\ events = <<>> /\ calls = <<>> /\ hist = <<>>
    /\ IdleLoop /\ IdleVis /\ IdleRename /\ IdleGvfs

NextAgree ==
    \/ start /\ UNCHANGED hist
    \/ stop /\ UNCHANGED hist
    \/ \E n \in AgreeDevs : blockDeviceAdded(n)
    \/ \E n \in AgreeDevs : blockDeviceRemoved(n)
    \/ \E canconst \in BOOLEAN : listCall(RootUrl, canconst)

SpecAgree == InitAgree /\ [][NextAgree]_vars

\* start() step by step, in the thread of the session. The slots start()
\* connects are functors connected without a context object: each runs in
\* the thread that raises the signal, and the two backends raise theirs from
\* the event loop of the thread they were created in, which is the thread
\* running start(). A signal the backend raises while a handler runs waits
\* in `queue` until the handler has returned.

\* no backend signal is raised while MaxQueue signals wait
MaxQueue == 2

\* the devices that come and go while start() runs: the system partition and
\* a locked encrypted partition
LoopDevs == {"sda1", "sdc1"}

\* a slot is run only between two handlers
M_Deliverable_anytime == TRUE

Deliverable == pc.at = "idle"

\* start() up to the last connect: the guard, the two managers, the five
\* backend listeners
startAttach ==
    /\ pc.at = "idle"
    /\ lastCall' = Call("start", "", "", NoUrl)
    /\ events' = <<>> /\ calls' = <<>>
    /\ IF startRefused
       THEN /\ ret' = <<FALSE>>
            /\ UNCHANGED <<sessionVars, pc>>
       ELSE /\ vfsmgr' = TRUE
            /\ udisksmgr' = "watching"
            /\ connections' = connections \o startConnections
            /\ pc' = [at |-> "attached", devs |-> <<>>]
            /\ ret' = <<>>
            /\ UNCHANGED <<fileUrl, started, blkdevs, connectionsurl>>
    /\ UNCHANGED <<queue, backendVars, visVars, settingVars, gvfsVars, renameVars, hist>>

\* start(): udisksmgr->blockDevices({})
startQuery ==
    /\ pc.at = "attached"
    /\ pc' = [at |-> "loop", devs |-> blockDevices(blockDevs)]
    /\ UNCHANGED <<queue, sessionVars, backendVars, observeVars, visVars, settingVars, gvfsVars, renameVars>>

\* start(): one round of the loop over the devices the query returned
startDevice ==
    /\ pc.at = "loop" /\ pc.devs # <<>>
    /\ LET d1 == snapshotLoop(Priv, <<Head(pc.devs)>>, blockDevs)
       IN /\ connections' = d1.connections
          /\ blkdevs' = d1.blkdevs
          /\ connectionsurl' = d1.connectionsurl
          /\ hiddenDirs' = d1.hiddenDirs
    /\ pc' = [pc EXCEPT !.devs = Tail(@)]
    /\ UNCHANGED <<queue, fileUrl, started, vfsmgr, udisksmgr, blockDevs, mountPoints, idLabel,
                   observeVars, visVars, settingVars, gvfsVars, renameVars>>

\* start(): started = true; return true
startReturn ==
    /\ pc.at = "loop" /\ pc.devs = <<>>
    /\ started' = TRUE
    /\ ret' = <<TRUE>>
    /\ pc' = [at |-> "idle", devs |-> <<>>]
    /\ UNCHANGED <<queue, fileUrl, vfsmgr, udisksmgr, connections, blkdevs, connectionsurl, backendVars,
                   lastCall, events, calls, hist, visVars, settingVars, gvfsVars, renameVars>>

\* the backend gains or loses block device or mount n, at any moment; a
\* manager that exists and watches raises the signal, which waits in queue
backendRaises(signal, n) ==
    /\ Len(queue) < MaxQueue
    /\ CASE signal = "blockDeviceAdded" ->
              /\ n \notin blockDevs
              /\ Len(blkdevs) + 2 * (Len(queue) + 1) <= MaxRefs
              /\ blockDevs' = blockDevs \cup {n} /\ UNCHANGED mounts
         [] signal = "blockDeviceRemoved" ->
              /\ n \in blockDevs
              /\ blockDevs' = blockDevs \ {n} /\ UNCHANGED mounts
         [] signal = "mountAdded" ->
              /\ n \notin mounts
              /\ mounts' = mounts \cup {n} /\ UNCHANGED blockDevs
         [] OTHER ->
              /\ n \in mounts
              /\ mounts' = mounts \ {n} /\ UNCHANGED blockDevs
    /\ queue' = IF (IF signal \in {"blockDeviceAdded", "blockDeviceRemoved"}
                    THEN udisksmgr = "watching" ELSE vfsmgr)
                THEN Append(queue, <<signal, n>>)
                ELSE queue
    /\ UNCHANGED <<pc, sessionVars, mountPoints, idLabel, hiddenDirs, observeVars, visVars, settingVars,
                   volumes, mountRequests, stash, DiskInfoMap, renameVars>>

\* the event loop hands the oldest waiting signal to the slots connected to it
dispatch ==
    /\ Deliverable
    /\ queue # <<>>
    /\ queue' = Tail(queue)
    /\ LET signal == Head(queue)[1]
           n == Head(queue)[2]
           k == IF udisksmgr = "watching" THEN Receivers(connections, "udisksmgr", signal) ELSE 0
           d1 == CASE signal = "blockDeviceAdded" -> deliverBlockDeviceAdded(Priv, k, ObjPrefix \o n, blockDevs)
                   [] signal = "blockDeviceRemoved" -> deliverBlockDeviceRemoved(Priv, k, ObjPrefix \o n)
                   [] OTHER -> Priv
           r == CASE signal = "mountAdded" /\ Listening(signal) -> mountAddedSlot(MountCatalog[n], "valid")
                  [] signal = "mountRemoved" /\ Listening(signal) ->
                        mountRemovedSlot(MountCatalog[n], "valid", FALSE, 0)
                  [] OTHER -> SlotResult(d1.emitted, <<>>, FALSE)
       IN /\ connections' = d1.connections
          /\ blkdevs' = d1.blkdevs
          /\ connectionsurl' = d1.connectionsurl
          /\ events' = r.emitted /\ calls' = r.called
          /\ lastCall' = Call(signal, n, "", NoUrl)
    /\ ret' = <<>>
    /\ UNCHANGED <<pc, fileUrl, started, vfsmgr, udisksmgr, backendVars, hist, visVars, settingVars, gvfsVars,
                   renameVars>>

\* a watcher of the virtual root right after construction
InitLoop ==
    /\ InitSessionOn(LoopDevs)
    /\ fileUrl = RootUrl
    /\ GA_HideLoopPartitions = FALSE

NextLoop ==
    \/ startAttach
    \/ startQuery
    \/ startDevice
    \/ startReturn
    \/ \E signal \in {"blockDeviceAdded", "blockDeviceRemoved"}, n \in LoopDevs : backendRaises(signal, n)
    \/ \E signal \in {"mountAdded", "mountRemoved"} : backendRaises(signal, "smb")
    \/ dispatch

SpecLoop == InitLoop /\ [][NextLoop]_vars

\* a session on a machine with a system partition and a logical volume,
\* where phones are plugged in
NextLvm ==
    \/ start /\ UNCHANGED hist
    \/ stop /\ UNCHANGED hist
    \/ \E n \in LvmDevs : blockDeviceAdded(n)
    \/ \E n \in LvmDevs : blockDeviceRemoved(n)
    \/ \E n \in LvmDevs, signal \in BlkSignals : attributeChanged(n, signal)
    \/ \E v \in DOMAIN VolumeCatalog : volumeAdded(v)

InitLvm == InitSessionOn(LvmDevs)

SpecLvm == InitLvm /\ [][NextLvm]_vars

----------------------------------------------------------------------------
(* C11: the block-device-added callback of a started session *)

\* the Visibility Policy's verdict on the catalogue device n
Visible(n, present) ==
    LET blk == createBlockDevice(ObjPrefix \o n, present)
    IN ~ignoreBlkDevice(ObjPrefix \o n, blk, createDiskDevice(blk.drive))

\* the dedup key the session keeps for device n
DedupKey(n, present) ==
    IF createBlockDevice(ObjPrefix \o n, present).isEncrypted
    THEN blkUrlStr(ObjPrefix \o n) \o "_en"
    ELSE blkUrlStr(ObjPrefix \o n)

CreatedFor(n) == <<Emit("subfileCreated", DUrl(blkUrlStr(ObjPrefix \o n)))>>

\* the number of device references the callback takes for device n
RefsFor(n, present) ==
    IF createBlockDevice(ObjPrefix \o n, present).isEncrypted THEN 2 ELSE 1

AddedInSession == started /\ lastCall'.op = "blockDeviceAdded"

\* C11 (amended): while the session is started, a block-device-added
\* callback emits Created(Address) exactly when the device is visible per the
\* Visibility Policy and then records a device reference; it registers the
\* device's attribute listeners and its dedup key exactly when the device is
\* visible and its dedup key is not recorded yet; for a hidden device it
\* emits no event and registers no listener, dedup key or device reference.
C11_AddedCallback ==
    [][ AddedInSession =>
          LET n == lastCall'.dev
              vis == Visible(n, blockDevs')
              key == DedupKey(n, blockDevs')
              known == InList(connectionsurl, key)
          IN /\ vis => /\ events' = CreatedFor(n)
                       /\ Len(blkdevs') = Len(blkdevs) + RefsFor(n, blockDevs')
             /\ ~vis => /\ events' = <<>>
                        /\ UNCHANGED <<connections, blkdevs, connectionsurl>>
             /\ (vis /\ ~known) => /\ connectionsurl' = Append(connectionsurl, key)
                                   /\ Len(connections') > Len(connections)
                                   /\ \A i \in Len(connections) + 1 .. Len(connections') :
                                          connections'[i].url = DUrl(blkUrlStr(ObjPrefix \o n))
             /\ (vis /\ known) => UNCHANGED <<connections, connectionsurl>> ]_vars

\* C11 as stated: listeners are registered and Created is emitted exactly
\* when the device is visible and not already known to the session
C11_AsStated ==
    [][ AddedInSession =>
          LET n == lastCall'.dev
              newlyVisible == /\ Visible(n, blockDevs')
                              /\ ~InList(connectionsurl, DedupKey(n, blockDevs'))
          IN /\ (events' = CreatedFor(n)) <=> newlyVisible
             /\ (Len(connections') > Len(connections)) <=> newlyVisible
             /\ ~Visible(n, blockDevs') =>
                   /\ events' = <<>>
                   /\ UNCHANGED <<connections, blkdevs, connectionsurl>> ]_vars

\* C11: a started session has just been told that the system partition is
\* back: it holds two references to it and one dedup key, and has emitted
\* Created for it
C11_Witness ==
    /\ started /\ lastCall.op = "blockDeviceAdded" /\ lastCall.dev = "sda1"
    /\ events = CreatedFor("sda1")
    /\ Cardinality({i \in 1..Len(blkdevs) : blkdevs[i] = ObjPrefix \o "sda1"}) = 2
    /\ Cardinality({i \in 1..Len(connectionsurl) : connectionsurl[i] = blkUrlStr(ObjPrefix \o "sda1")}) = 1

----------------------------------------------------------------------------
(* C12: the block-device-removed callback of a started session *)

\* the address List() constructs for the catalogue device n
ListAddress(n, present) == blkEntryUrl(createBlockDevice(ObjPrefix \o n, present))

\* C12: while the session is started, every block-device-removed callback
\* emits exactly one Deleted event, whose address is the address List()
\* constructs for the same device.
C12_AsStated ==
    [][ (started /\ lastCall'.op = "blockDeviceRemoved") =>
          events' = <<Emit("fileDeleted", ListAddress(lastCall'.dev, blockDevs))>> ]_vars

\* C12: a started session has just been told that the logical volume is
\* gone, and has emitted Deleted for an address List() never gave it
C12_Witness ==
    /\ started /\ lastCall.op = "blockDeviceRemoved" /\ lastCall.dev = "dm_2d1"
    /\ Visible("dm_2d1", Devs)
    /\ ListAddress("dm_2d1", Devs) = [scheme |-> "dfmroot", path |-> "/dm-1.localdisk"]
    /\ events = <<Emit("fileDeleted", [scheme |-> "dfmroot", path |-> "/dm_2d1.localdisk"])>>

----------------------------------------------------------------------------
(* C13: the mount-added callback against step 3 of List() *)

\* the entries the mount loop of getChildren gives for the mounts mnts
Step3(mnts) ==
    mountLoop(mnts, 1, [ret |-> <<>>, hintSystemDisks |-> <<>>, diskInfo |-> {}, urllist |-> <<>>]).ret

AddedWhileListening == Listening("mountAdded") /\ lastCall'.op = "mountAdded"

\* C13 (amended): a mount-added callback emits Created(Address) exactly when
\* step 3 of List() would list that same mount and the mount's root file
\* gives a non-empty path; the emitted address is the one List() gives the
\* mount, and List() of the live mounts holds it.
C13_MountAddedAsList ==
    [][ AddedWhileListening =>
          LET n == lastCall'.dev
              alone == Step3(<<n>>)
          IN /\ (events' # <<>>) <=> (alone # <<>> /\ Len(MountCatalog[n].path) > 0)
             /\ events' # <<>> =>
                   /\ events' = <<Emit("subfileCreated", alone[1])>>
                   /\ alone[1] \in Addresses(Step3(getMounts(mounts'))) ]_vars

\* C13 as stated: Created is emitted exactly when step 3 of List() would
\* list the mount, with List()'s address
C13_AsStated ==
    [][ AddedWhileListening =>
          LET alone == Step3(<<lastCall'.dev>>)
          IN /\ (events' # <<>>) <=> (alone # <<>>)
             /\ events' # <<>> => events' = <<Emit("subfileCreated", alone[1])>> ]_vars

\* C13: while the share is mounted, a started session is told of the same
\* mount point once more: it emits Created for the address List() shows
\* once, and asks for new windows
C13_Witness ==
    /\ started /\ lastCall.op = "mountAdded" /\ lastCall.dev = "smb-again"
    /\ mounts = {"smb", "smb-again"}
    /\ Step3(getMounts(mounts)) = <<gvfsmpUrl(SmbPath)>>
    /\ events = <<Emit("subfileCreated", gvfsmpUrl(SmbPath))>>
    /\ \E i \in 1..Len(calls) : calls[i].call = "requestShowNewWindows"

----------------------------------------------------------------------------
(* C14: the mount-removed callback of a mount without path *)

RemovedWithoutPath ==
    /\ Listening("mountRemoved") /\ lastCall'.op = "mountRemoved"
    /\ MountCatalog[lastCall'.dev].hasRootFile
    /\ ~skipMount(MountCatalog[lastCall'.dev])
    /\ Len(MountCatalog[lastCall'.dev].path) = 0

\* C14: on a mount-removed callback whose backend supplies no path the path
\* is derived from the mount's uri; if the derivation yields no path either,
\* no Deleted event is emitted for that callback.
C14_AsStated ==
    [][ RemovedWithoutPath =>
          LET path == pathFromUri(MountCatalog[lastCall'.dev].uri)
          IN IF Len(path) = 0 THEN events' = <<>>
             ELSE events' = <<Emit("fileDeleted", gvfsmpUrl(path))>> ]_vars

\* C14: a started session has just been told that the mount smb://nas,
\* which gives no path, is gone, and has emitted Deleted for the address of
\* the empty path
C14_Witness ==
    /\ started /\ lastCall.op = "mountRemoved" /\ lastCall.dev = "bare"
    /\ pathFromUri(MountCatalog["bare"].uri) = ""
    /\ events = <<Emit("fileDeleted", [scheme |-> "dfmroot", path |-> "/.gvfsmp"])>>

----------------------------------------------------------------------------
(* C19: failures in the mount callbacks *)

\* C19: no failure is fatal to the session: a mount-added or mount-removed
\* callback for a mount whose root file or path is unavailable never ends
\* the process, and leaves the session as it was, started with its listeners.
C19_AsStated ==
    [][ lastCall'.op \in {"mountAdded", "mountRemoved"} =>
          /\ ~crashed'
          /\ UNCHANGED sessionVars ]_vars

\* C19: a started session was told of a mount that has no root file, and the
\* access to the root file ended the process
C19_Witness ==
    /\ started /\ crashed
    /\ lastCall.op \in {"mountAdded", "mountRemoved"}
    /\ ~MountCatalog[lastCall.dev].hasRootFile
    /\ events = <<>>

----------------------------------------------------------------------------
(* C15: the hide-system-disk switch after List() *)

\* the UUIDs of the present system disks the Visibility Policy lets through
SystemDiskUuids ==
    {BlkCatalog[n].idUUID : n \in {d \in blockDevs : BlkCatalog[d].hintSystem /\ Visible(d, blockDevs)}}

ManagedListExists == DTK_POLICY_SUPPORT /\ hasSetDiskPolicy

ListedRoot == lastCall'.op = "getChildren" /\ lastCall'.url = RootUrl

\* C15 (amended): whenever a managed hidden-disk list exists, every List() on
\* the virtual root that is not restricted to the constant entries leaves the
\* switch reconciled with it: off if the managed list is empty, otherwise on
\* if the UUID of every system disk is in the list and off if not; a List()
\* restricted to the constant entries leaves the switch as it was.
C15_SwitchReconciled ==
    [][ (ManagedListExists /\ ListedRoot) =>
          IF lastCall'.canconst THEN UNCHANGED GA_HiddenSystemPartition
          ELSE GA_HiddenSystemPartition' =
                  ( /\ diskPolicyList # <<>>
                    /\ \A u \in SystemDiskUuids : InList(diskPolicyList, u) ) ]_vars

\* C15 as stated: every List() on the root leaves the switch on if every
\* system disk's UUID is in the managed list, and off otherwise
C15_AsStated ==
    [][ (ManagedListExists /\ ListedRoot) =>
          GA_HiddenSystemPartition' = (\A u \in SystemDiskUuids : InList(diskPolicyList, u)) ]_vars

\* C15: the managed list names the system partition; a List() restricted to
\* the constant entries was followed by one that was not, and the switch is on
C15_Witness ==
    /\ ManagedListExists /\ diskPolicyList = <<"uuid-sda1">> /\ "sda1" \in blockDevs
    /\ Len(hist) = 2
    /\ hist[1].call.url = RootUrl /\ hist[1].call.canconst
    /\ hist[2].call.url = RootUrl /\ ~hist[2].call.canconst
    /\ GA_HiddenSystemPartition

----------------------------------------------------------------------------
(* C18: an encrypted shell and its mounted cleartext device in List() *)

\* the addresses an entry for the pair sdc1 / dm-0 could take: the shell,
\* the cleartext device by its node or by its object path, and the mount
\* point of the cleartext device as a mount entry
ShellAddress == DUrl(DFMROOT_ROOT \o "sdc1." \o SUFFIX_UDISKS)

PairAddresses ==
    { ShellAddress,
      DUrl(DFMROOT_ROOT \o "dm-0." \o SUFFIX_UDISKS),
      DUrl(DFMROOT_ROOT \o "dm_2d0." \o SUFFIX_UDISKS),
      gvfsmpUrl("/media/u/Secret") }

PairUnlocked ==
    /\ {"sdc1", "dm_2d0"} \subseteq blockDevs
    /\ createBlockDevice(ObjPrefix \o "sdc1", blockDevs).cleartextDevice = ObjPrefix \o "dm_2d0"
    /\ mountPoints["dm_2d0"] # <<>>

----------------------------------------------------------------------------
(* C16, C17: address equality *)

Compared == lastCall.op = "operator=="

\* the two addresses differ only in that the path of one has one more
\* separator at its end
SameButTrailingSeparator(t, u) ==
    /\ t.scheme = u.scheme /\ t.hasAuthority = u.hasAuthority
    /\ t.path = u.path \o "/" \/ u.path = t.path \o "/"

ShorterPath(t, u) == IF Len(t.path) < Len(u.path) THEN t.path ELSE u.path

\* the addresses the tolerance is made for: a recognized scheme written with
\* an authority, or a local file with an absolute path; the bare root apart
Tolerated(t, u) ==
    /\ t.scheme \in schemeList
    /\ t.hasAuthority \/ (t.scheme = "file" /\ StartsWith(ShorterPath(t, u), "/"))
    /\ ShorterPath(t, u) # "/"

\* C16 (amended): an address of a recognized scheme that is written with an
\* authority, or a local-file address with an absolute path, compares equal
\* to the same address whose path has exactly one extra trailing separator,
\* unless the shorter path is the bare root "/"; an address compared with one
\* of a scheme that is not recognized is equal only when identical; and no
\* address compares equal to one whose path length differs from its own by
\* two or more characters.
C16_Tolerance ==
    Compared =>
        LET t == lastCall.this
            u == lastCall.url
        IN /\ (SameButTrailingSeparator(t, u) /\ Tolerated(t, u)) => ret[1]
           /\ u.scheme \notin schemeList => (ret[1] <=> QUrlEquals(t, u))
           /\ Abs(Len(t.path) - Len(u.path)) >= 2 => ~ret[1]

\* C16 as stated: every address compares equal to the same address with one
\* extra trailing separator, and never to one whose path length differs by
\* two or more
C16_AsStated ==
    Compared =>
        /\ SameButTrailingSeparator(lastCall.this, lastCall.url) => ret[1]
        /\ Abs(Len(lastCall.this.path) - Len(lastCall.url.path)) >= 2 => ~ret[1]

\* C16: recent:///a/b was compared with recent:///a/b/ and found equal
C16_Witness ==
    /\ Compared /\ ret = <<TRUE>>
    /\ lastCall.this = [scheme |-> "recent", hasAuthority |-> TRUE, path |-> "/a/b"]
    /\ lastCall.url = [scheme |-> "recent", hasAuthority |-> TRUE, path |-> "/a/b/"]

\* C17: two addresses compare equal only if they have the same scheme and
\* their paths are identical or differ by exactly one trailing separator,
\* and the comparison of two addresses gives the same answer with its
\* operands swapped.
C17_AsStated ==
    Compared =>
        LET t == lastCall.this
            u == lastCall.url
        IN /\ ret[1] => /\ t.scheme = u.scheme
                        /\ t.path = u.path \/ t.path = u.path \o "/" \/ u.path = t.path \o "/"
           /\ u \in DUrls => (ret[1] <=> Equals(u, t))

\* C17: recent:///a/ was compared with search:///a and found equal
C17_Witness ==
    /\ Compared /\ ret = <<TRUE>>
    /\ lastCall.this = [scheme |-> "recent", hasAuthority |-> TRUE, path |-> "/a/"]
    /\ lastCall.url = [scheme |-> "search", hasAuthority |-> TRUE, path |-> "/a"]

----------------------------------------------------------------------------
(* C20: attribute listeners and dedup keys *)

NoDuplicate(list) == \A i, j \in 1..Len(list) : list[i] = list[j] => i = j

\* C20: between a Start and the next Stop the per-device attribute listeners
\* are registered at most once per dedup key: the dedup keys hold no
\* duplicate, no listener is connected twice, and one backend attribute
\* change produces at most one AttributeChanged event.
C20_ListenersOnce ==
    /\ NoDuplicate(connectionsurl)
    /\ NoDuplicate(connections)
    /\ lastCall.op = "attributeChanged" =>
          /\ Len(events) <= 1
          /\ \A i \in 1..Len(events) : events[i].signal = "fileAttributeChanged"

\* C20: the system partition was presented to a started session twice, by
\* the Start snapshot and by a later block-device-added callback; a change
\* of its label has produced exactly one AttributeChanged event
C20_Witness ==
    /\ started /\ lastCall.op = "attributeChanged"
    /\ lastCall.dev = "sda1" /\ lastCall.signal = "idLabelChanged"
    /\ Cardinality({i \in 1..Len(blkdevs) : blkdevs[i] = ObjPrefix \o "sda1"}) = 2
    /\ events = <<Emit("fileAttributeChanged", DUrl(blkUrlStr(ObjPrefix \o "sda1")))>>

----------------------------------------------------------------------------
(* C27: what a running session keeps *)

IsPrefix(s, t) == Len(s) <= Len(t) /\ SubSeq(t, 1, Len(s)) = s

\* the number of times x stands in list
Count(list, x) == Cardinality({i \in 1..Len(list) : list[i] = x})

\* C27: between Start and Stop the listener list, the dedup keys and the
\* device references only grow; a block-device-removed callback emits
\* Deleted and removes no dedup key, listener or device reference; and a
\* block-device-added callback for a device whose key is already recorded
\* registers no attribute listener.
C27_RunningSessionKeeps ==
    [][ (started /\ started') =>
          /\ IsPrefix(connections, connections')
          /\ IsPrefix(connectionsurl, connectionsurl')
          /\ IsPrefix(blkdevs, blkdevs')
          /\ lastCall'.op = "blockDeviceRemoved" =>
                /\ Len(events') = 1 /\ events'[1].signal = "fileDeleted"
                /\ UNCHANGED <<connections, connectionsurl, blkdevs>>
          /\ (/\ lastCall'.op = "blockDeviceAdded"
              /\ InList(connectionsurl, DedupKey(lastCall'.dev, blockDevs'))) =>
                UNCHANGED <<connections, connectionsurl>> ]_vars

\* C27: the system partition was presented to the started session, went
\* away and came back (a device is only added while it is absent): the
\* session holds two references to it, one dedup key and the five listeners
\* of its first presentation
C27_Witness ==
    /\ started /\ lastCall.op = "blockDeviceAdded" /\ lastCall.dev = "sda1"
    /\ Count(blkdevs, ObjPrefix \o "sda1") = 2
    /\ Count(connectionsurl, blkUrlStr(ObjPrefix \o "sda1")) = 1
    /\ Cardinality({i \in 1..Len(connections) : connections[i].sender = ObjPrefix \o "sda1"}) = 5

----------------------------------------------------------------------------
(* C22: a stopped session started again *)

\* the present devices the Visibility Policy lets through
VisiblePresent(present) == {n \in present : Visible(n, present)}

\* the attribute listeners a session holds for the address of device n
ListenersFor(conns, n) ==
    Cardinality({i \in 1..Len(conns) : conns[i].url = DUrl(blkUrlStr(ObjPrefix \o n))})

\* the object paths a session references on behalf of device n
RefPaths(n, present) ==
    LET blk == createBlockDevice(ObjPrefix \o n, present)
    IN IF blk.isEncrypted THEN <<blk.path, blk.cleartextDevice>> ELSE <<blk.path>>

\* C22: on a virtual-root session that was started and stopped, the next
\* Start returns true, attaches the five backend listeners again and
\* registers one set of attribute listeners and one dedup key for every
\* present policy-visible device; the listeners, dedup keys and device
\* references of the new run are those of the devices present at this Start
\* and no others.
C22_Restart ==
    [][ (Len(hist) = 2 /\ Len(hist') = 3) =>
          LET vis == VisiblePresent(blockDevs) IN
          /\ hist = <<TRUE, TRUE>>
          /\ ret' = <<TRUE>> /\ started' /\ vfsmgr' /\ udisksmgr' = "watching"
          /\ SubSeq(connections', 1, Len(startConnections)) = startConnections
          /\ \A n \in Devs :
                /\ ListenersFor(connections', n) =
                      IF n \notin vis THEN 0
                      ELSE IF createBlockDevice(ObjPrefix \o n, blockDevs).isEncrypted THEN 3 ELSE 5
                /\ Count(connectionsurl', DedupKey(n, blockDevs)) = IF n \in vis THEN 1 ELSE 0
          /\ Len(connectionsurl') = Cardinality(vis)
          /\ \A i \in Len(startConnections) + 1 .. Len(connections') :
                \E n \in vis : connections'[i].url = DUrl(blkUrlStr(ObjPrefix \o n))
          /\ \A i \in 1..Len(blkdevs') :
                \E n \in vis : InList(RefPaths(n, blockDevs), blkdevs'[i])
          /\ \A n \in vis : \A j \in 1..Len(RefPaths(n, blockDevs)) :
                Count(blkdevs', RefPaths(n, blockDevs)[j]) = 1 ]_vars

\* C22: the session has been started, stopped and started again; the first
\* run lost the system partition (its snapshot hid the directories of its
\* mount point) and the new run listens to the encrypted shell and its
\* cleartext device only
C22_Witness ==
    /\ hist = <<TRUE, TRUE, TRUE>> /\ lastCall.op = "start" /\ started
    /\ "/root" \in hiddenDirs
    /\ blockDevs = {"sdc1", "dm_2d0"}
    /\ connectionsurl = <<blkUrlStr(ObjPrefix \o "sdc1") \o "_en">>
    /\ blkdevs = <<ObjPrefix \o "sdc1", ObjPrefix \o "dm_2d0">>
    /\ Len(connections) = Len(startConnections) + 3

----------------------------------------------------------------------------
(* C26: a stopped session is silent *)

BackendCallbacks ==
    {"blockDeviceAdded", "blockDeviceRemoved", "attributeChanged", "mountAdded", "mountRemoved"}

\* C26: while the session is not started (before its first Start, and from
\* a Stop until the next successful Start) a block-device, mount or
\* per-device attribute callback of the backend emits no Created, Deleted or
\* AttributeChanged event.
C26_QuietWhenStopped ==
    (~started /\ lastCall.op \in BackendCallbacks) => events = <<>>

\* C26: a session that ran (its Start hid the directories under the mount
\* point of the system partition) and was stopped; the backend has just
\* lost a share, and nothing was emitted
C26_Witness ==
    /\ ~started /\ "/root" \in hiddenDirs
    /\ lastCall.op = "mountRemoved" /\ lastCall.dev = "smb"
    /\ events = <<>>

----------------------------------------------------------------------------
(* C23, C24, C28: the alias store under Rename *)

\* C23: after any sequence of Rename calls on a persisted list that held
\* at most one record per UUID, the list holds at most one record per UUID
\* and no record with an empty alias.
C23_AliasStore ==
    /\ \A i, j \in 1..Len(aliasList) : aliasList[i].uuid = aliasList[j].uuid => i = j
    /\ \A i \in 1..Len(aliasList) : aliasList[i].alias # ""

\* C23: after at least two Renames (no persisted list holds a record of the
\* loop device, and none holds this alias of the internal partition) the
\* list holds one record for each of three UUIDs
C23_Witness ==
    /\ lastCall.op = "renameFile" /\ ret = <<TRUE>>
    /\ Len(aliasList) = 3
    /\ \E i \in 1..3 : aliasList[i] = AliasItem("uuid-sda1", "System", "Work")
    /\ \E i \in 1..3 : aliasList[i].uuid = "uuid-loop5"
    /\ \E i \in 1..3 : aliasList[i] = OldItem

AliasRename == lastCall'.op = "renameFile" /\ lastCall'.entry.canSetAlias

\* C24: an alias Rename that returns true has written the alias list to the
\* settings storage and then raised the attribute-change ghost signal for
\* the root with the address of the entry: one write, one signal, the write
\* first, and the list stored is the list after the Rename.
C24_StoreThenSignal ==
    [][ (AliasRename /\ ret' = <<TRUE>>) =>
          LET sv == CallsOf(calls', "setValue")
              gs == CallsOf(calls', "ghostSignal")
          IN /\ Cardinality(sv) = 1 /\ Cardinality(gs) = 1 /\ Len(calls') = 2
             /\ \A i \in sv, j \in gs : i < j
             /\ \A j \in gs : calls'[j].on = DFMROOT_ROOT /\ calls'[j].arg = lastCall'.entry.url.path
             /\ aliasList' = setLocalDiskAlias(aliasList, lastCall'.entry, lastCall'.newName).list ]_vars

\* C24: the alias of the internal partition has been changed: the list was
\* stored, then the signal raised
C24_Witness ==
    /\ lastCall.op = "renameFile" /\ lastCall.entry = deviceFileInfo("sda1", TRUE)
    /\ lastCall.newName = " Data " /\ ret = <<TRUE>>
    /\ calls = << BackendCall("setValue", "DISKALIAS_ITEMS", "", FALSE),
                  BackendCall("ghostSignal", DFMROOT_ROOT, "/sda1.localdisk", FALSE) >>
    /\ \E i \in 1..Len(aliasList) : aliasList[i] = AliasItem("uuid-sda1", "System", "Data")

\* C28: a Rename of an entry that cannot be renamed, or of an alias-capable
\* entry without UUID, returns false, leaves the persisted alias list as it
\* was and raises no signal; and no alias Rename that returns false changes
\* the list or raises a signal.
C28_FailedAliasRename ==
    [][ lastCall'.op = "renameFile" =>
          /\ (~lastCall'.entry.canRename \/ (lastCall'.entry.canSetAlias /\ lastCall'.entry.uuid = ""))
                => ret' = <<FALSE>>
          /\ ((~lastCall'.entry.canRename \/ lastCall'.entry.canSetAlias) /\ ret' = <<FALSE>>)
                => /\ UNCHANGED aliasList
                   /\ calls' = <<>> /\ events' = <<>> ]_vars

\* C28: a Rename of the alias-capable entry without UUID has been refused
\* while the list held records
C28_Witness ==
    /\ lastCall.op = "renameFile" /\ lastCall.entry = noUuidFileInfo /\ lastCall.newName = "Work"
    /\ ret = <<FALSE>> /\ calls = <<>>
    /\ Len(aliasList) = 2

----------------------------------------------------------------------------
(* C25: the system-disk policy layer of List() *)

\* C25: of the present devices the Visibility Policy lets through, List()
\* on the virtual root leaves out exactly those flagged system disk that the
\* policy layer names: with a managed hidden-disk list, those whose UUID is
\* in the list, whatever the switch says; without one, all of them when the
\* switch is on. A device not flagged system disk is always returned.
C25_SystemDiskLayer ==
    (lastCall.op = "getChildren" /\ lastCall.url = RootUrl) =>
        \A n \in VisiblePresent(blockDevs) :
            (ListAddress(n, blockDevs) \notin Addresses(ret[1]))
            <=> ( /\ BlkCatalog[n].hintSystem
                  /\ IF ManagedListExists
                     THEN InList(diskPolicyList, BlkCatalog[n].idUUID)
                     ELSE GA_HiddenSystemPartition )

\* C25: a managed list exists and names another disk, the switch is on, and
\* List() has returned the system partition
C25_Witness ==
    /\ lastCall.op = "getChildren" /\ lastCall.url = RootUrl /\ lastCall.canconst
    /\ ManagedListExists /\ diskPolicyList = <<"uuid-other">>
    /\ GA_HiddenSystemPartition
    /\ ListAddress("sda1", blockDevs) \in Addresses(ret[1])
    /\ ListAddress("dm_2d1", blockDevs) \in Addresses(ret[1])

----------------------------------------------------------------------------
(* C29: the block devices List() returns and those a session announces *)

\* the block-device entries List() on the virtual root returns in this state
BlockEntries ==
    Addresses(blockLoop(blockDevices(blockDevs), 1,
                        [ret |-> <<>>, hintSystemDisks |-> <<>>, diskInfo |-> {}, urllist |-> <<>>]).ret)

\* List() leaves out the present device n, by either policy
ListOmits(n) == ListAddress(n, blockDevs) \notin BlockEntries

\* C29: a block device that a List() would leave out, by the Visibility
\* Policy or by the system-disk policy layer, is not announced by a Created
\* event when it is added while the session is started.
C29_AsStated ==
    (started /\ lastCall.op = "blockDeviceAdded" /\ ListOmits(lastCall.dev)) => events = <<>>

\* C29: the switch that hides system disks is on and no managed list
\* exists; the system partition has just been added, the started session
\* has announced it, and a List() in this state does not return it
C29_Witness ==
    /\ started /\ lastCall.op = "blockDeviceAdded" /\ lastCall.dev = "sda1"
    /\ GA_HiddenSystemPartition /\ ~ManagedListExists
    /\ Visible("sda1", blockDevs)
    /\ ListOmits("sda1")
    /\ events = CreatedFor("sda1")

----------------------------------------------------------------------------
(* C21: Start against the callbacks of the backend *)

\* the size of the set of attribute listeners of device n
FullSet(n) == IF BlkCatalog[n].isEncrypted THEN 3 ELSE 5

\* a step in which a waiting signal is handed to its slots
Dispatched == Len(queue') < Len(queue)

\* a step in which start() returns true
StartReturnsTrue == pc.at = "loop" /\ pc'.at = "idle"

\* a slot never runs between the attachment of the backend listeners and
\* the end of the snapshot: it finds no start() under way and, if it finds
\* listeners at all, a session that is started
SlotsSeeWholeStart ==
    [][ Dispatched => (pc.at = "idle" /\ (connections # <<>> => started)) ]_vars

\* no device has more than one set of attribute listeners or dedup key
AtMostOneSet ==
    \A n \in LoopDevs :
        /\ ListenersFor(connections, n) \in {0, FullSet(n)}
        /\ Count(connectionsurl, DedupKey(n, blockDevs)) <= 1

=============================================================================
